---- MODULE Spec2Model ----
(***************************************************************************)
(* Command-line front end of optipng.c: option scanner and resolver        *)
(* (scan_option, parse_args), the dual-sink status reporter (app_printf,   *)
(* app_print_cntrl), and the driver (main, app_init, process_files).       *)
(*                                                                         *)
(* A C string is a sequence of one-character strings without its NUL; the  *)
(* null pointer is the distinguished value Null.                           *)
(***************************************************************************)
EXTENDS Integers, Sequences, FiniteSets, TLC

(***************************************************************************)
(* Characters and <ctype.h> in the "C" locale.                             *)
(***************************************************************************)
Null == <<"NULL">>

UpperSeq == <<"A","B","C","D","E","F","G","H","I","J","K","L","M",
              "N","O","P","Q","R","S","T","U","V","W","X","Y","Z">>
LowerSeq == <<"a","b","c","d","e","f","g","h","i","j","k","l","m",
              "n","o","p","q","r","s","t","u","v","w","x","y","z">>
DigitSeq == <<"0","1","2","3","4","5","6","7","8","9">>

Range(s) == {s[k] : k \in 1..Len(s)}

tolower(c) ==
    IF c \in Range(UpperSeq)
    THEN LowerSeq[CHOOSE k \in 1..Len(UpperSeq) : UpperSeq[k] = c]
    ELSE c

isdigit(c) == c \in Range(DigitSeq)
isalpha(c) == c \in Range(UpperSeq) \cup Range(LowerSeq)
isspace(c) == c \in {" ", "\t", "\n", "\r"}

DigitVal(c) == (CHOOSE k \in 1..Len(DigitSeq) : DigitSeq[k] = c) - 1

\* s[k], or the terminating NUL one past the end.
At(s, k) == IF k \in 1..Len(s) THEN s[k] ELSE "NUL"

\* The string that starts at position k of s (a pointer into s).
From(s, k) == SubSeq(s, k, Len(s))

LowerStr(s) == [k \in 1..Len(s) |-> tolower(s[k])]

Min(a, b) == IF a < b THEN a ELSE b

\* strcmp(a, b) == 0
StrEq(a, b) == a = b

\* strncmp(a, b, n) == 0: the first n characters agree, the comparison
\* stopping at the first NUL.
StrnEq(a, b, n) ==
    \A k \in 1..Min(n, Min(Len(a), Len(b)) + 1) : At(a, k) = At(b, k)

opng_strcasecmp_sensitive(str1, str2) == str1 = str2

\* opng_strcasecmp(str1, str2) == 0
opng_strcasecmp_eq(str1, str2) == LowerStr(str1) = LowerStr(str2)

\* Index of the first non-space character at or after k (Len(s)+1 if none).
RECURSIVE SkipSpace(_, _)
SkipSpace(s, k) ==
    IF k <= Len(s) /\ isspace(s[k]) THEN SkipSpace(s, k + 1) ELSE k

opng_strltrim(str) == From(str, SkipSpace(str, 1))

opng_strtail(str, num) ==
    IF Len(str) <= num THEN str ELSE From(str, Len(str) - num + 1)

\* Index of the first digit at or after k, 0 for the NULL result.
RECURSIVE FirstDigit(_, _)
FirstDigit(s, k) ==
    IF k > Len(s) THEN 0
    ELSE IF isdigit(s[k]) THEN k
    ELSE FirstDigit(s, k + 1)

opng_strpbrk_digit(str) == FirstDigit(str, 1)

(***************************************************************************)
(* unsigned long: 32 bits wide (LLP64), held as two 16-bit limbs so that   *)
(* every intermediate value of the arithmetic below is exact.              *)
(***************************************************************************)
LimbBase == 2^16

UL(h, l) == [hi |-> h, lo |-> l]

ULONG_MAX == UL(LimbBase - 1, LimbBase - 1)

INT_MAX == 2147483647

ULFromInt(n) == UL(n \div LimbBase, n % LimbBase)

ULGt(a, b) == a.hi > b.hi \/ (a.hi = b.hi /\ a.lo > b.lo)

\* (int)value, used only where value <= INT_MAX has been established.
ULToInt(v) == v.hi * LimbBase + v.lo

\* value > INT_MAX
ULGtIntMax(v) == v.hi >= LimbBase \div 2

\* ULONG_MAX / 2^sh and v * 2^sh (the latter modulo 2^32).
ULDivPow2(v, sh) ==
    IF sh >= 16
    THEN UL(0, v.hi \div 2^(sh - 16))
    ELSE UL(v.hi \div 2^sh, (v.hi % 2^sh) * 2^(16 - sh) + v.lo \div 2^sh)

ULMulPow2(v, sh) ==
    IF sh >= 16
    THEN UL((v.lo * 2^(sh - 16)) % LimbBase, 0)
    ELSE UL((v.hi * 2^sh + (v.lo * 2^sh) \div LimbBase) % LimbBase,
            (v.lo * 2^sh) % LimbBase)

\* strtoul(begin, &end, 10) on a string whose first character is a digit:
\* the whole digit run is consumed, and ULONG_MAX is returned on overflow.
RECURSIVE StrtoulFrom(_, _, _, _)
StrtoulFrom(s, k, acc, ovf) ==
    IF k > Len(s) \/ ~isdigit(s[k])
    THEN [val |-> IF ovf THEN ULONG_MAX ELSE acc, end |-> k]
    ELSE LET lo2 == acc.lo * 10 + DigitVal(s[k])
             hi2 == acc.hi * 10 + lo2 \div LimbBase
         IN  IF ovf \/ hi2 >= LimbBase
             THEN StrtoulFrom(s, k + 1, acc, TRUE)
             ELSE StrtoulFrom(s, k + 1, UL(hi2, lo2 % LimbBase), FALSE)

strtoul(s, k) == StrtoulFrom(s, k, UL(0, 0), FALSE)

\* The shift of the SI multiplier at *end_ptr, 0 when there is none.
MultiplierShift(c) ==
    IF c \in {"k", "K"} THEN 10
    ELSE IF c = "M" THEN 20
    ELSE IF c = "G" THEN 30
    ELSE 0

\* ApplyMultiplier without the test of overflow: the product wraps around.
ApplyMultiplierWrapping(val, sh) ==
    IF sh = 0 THEN val ELSE ULMulPow2(val, sh)

\* The multiplication by the SI multiplier 2^sh, saturating.
ApplyMultiplier(val, sh) ==
    IF sh = 0 THEN val
    ELSE IF ULGt(val, ULDivPow2(ULONG_MAX, sh)) THEN ULONG_MAX
    ELSE ULMulPow2(val, sh)

\* "Check for trailing garbage" from position end_ptr on.
Str2ulongTail(in_str, val, end_ptr) ==
    IF SkipSpace(in_str, end_ptr) <= Len(in_str)
    THEN [rc |-> -1, val |-> val]
    ELSE [rc |-> 0, val |-> val]

\* The part of opng_str2ulong after strtoul returned conv = [val, end].
Str2ulongSuffix(in_str, conv, sh) ==
    Str2ulongTail(in_str, ApplyMultiplier(conv.val, sh),
                  IF sh > 0 THEN conv.end + 1 ELSE conv.end)

Str2ulongFrom(in_str, allow_multiplier, conv) ==
    Str2ulongSuffix(in_str, conv,
                    IF allow_multiplier
                    THEN MultiplierShift(At(in_str, conv.end))
                    ELSE 0)

\* [rc, val]: rc = 0 on success, -1 on a matching failure or trailing garbage.
opng_str2ulong(in_str, allow_multiplier) ==
    IF ~isdigit(At(in_str, SkipSpace(in_str, 1)))
    THEN [rc |-> -1, val |-> UL(0, 0)]
    ELSE Str2ulongFrom(in_str, allow_multiplier,
                       strtoul(in_str, SkipSpace(in_str, 1)))

(***************************************************************************)
(* Option-argument checks.  Each returns [err, val]: err is "" on success, *)
(* otherwise the diagnostic that error() prints before exit(EXIT_FAILURE). *)
(***************************************************************************)
err_option_arg(opt_arg) ==
    IF opt_arg = Null \/ opng_strltrim(opt_arg) = <<>>
    THEN "Missing argument"
    ELSE "Invalid argument"

\* check_num_option once opng_str2ulong returned r = [rc, val].
CheckNum(opt_arg, r, lowest, highest) ==
    IF r.rc # 0 \/ ULGtIntMax(r.val)
       \/ ULToInt(r.val) < lowest \/ ULToInt(r.val) > highest
    THEN [err |-> err_option_arg(opt_arg), val |-> -1]
    ELSE [err |-> "", val |-> ULToInt(r.val)]

check_num_option(opt_arg, lowest, highest) ==
    CheckNum(opt_arg, opng_str2ulong(opt_arg, FALSE), lowest, highest)

\* check_power2_option once opng_str2ulong returned r = [rc, val]: the loop
\* over result = lowest..highest returns the first exact log2.
CheckPower2(opt_arg, r, lowest, highest) ==
    IF r.rc = 0 /\ \E e \in lowest..highest : ULFromInt(2^e) = r.val
    THEN [err |-> "",
          val |-> CHOOSE e \in lowest..highest :
                     /\ ULFromInt(2^e) = r.val
                     /\ \A f \in lowest..(e - 1) : ULFromInt(2^f) # r.val]
    ELSE [err |-> err_option_arg(opt_arg), val |-> -1]

check_power2_option(opt_arg, lowest, highest) ==
    CheckPower2(opt_arg, opng_str2ulong(opt_arg, TRUE),
                IF lowest < 0 THEN 0 ELSE lowest,
                IF highest > 30 THEN 30 ELSE highest)

(***************************************************************************)
(* Rangeset codec (bitset.h): opng_strparse_rangeset_to_bitset.  A bitset  *)
(* is held as the set of its elements.                                     *)
(***************************************************************************)
OPNG_BITSET_ELT_MAX == 31

OPNG_FILTER_SET_MASK == 0..5
OPNG_COMPR_LEVEL_SET_MASK == 1..9
OPNG_MEM_LEVEL_SET_MASK == 1..9
OPNG_STRATEGY_SET_MASK == 0..3

\* [rc, set] of the items that start at position k of s: a number, or an
\* ascending range lo-hi, each followed by a comma or the end of the text.
RECURSIVE RangesetItems(_, _, _)
RECURSIVE RangesetItem(_, _, _, _)
RangesetItem(s, acc, n1, n2) ==
    IF \/ ULGt(n1.val, ULFromInt(OPNG_BITSET_ELT_MAX))
       \/ ULGt(n2.val, ULFromInt(OPNG_BITSET_ELT_MAX))
       \/ ULGt(n1.val, n2.val)
    THEN [rc |-> -1, set |-> {}]
    ELSE IF n2.end > Len(s)
    THEN [rc |-> 0, set |-> acc \cup (ULToInt(n1.val)..ULToInt(n2.val))]
    ELSE IF s[n2.end] = ","
    THEN RangesetItems(s, n2.end + 1,
                       acc \cup (ULToInt(n1.val)..ULToInt(n2.val)))
    ELSE [rc |-> -1, set |-> {}]

RangesetFirst(s, acc, n1) ==
    IF At(s, n1.end) # "-" THEN RangesetItem(s, acc, n1, n1)
    ELSE IF isdigit(At(s, n1.end + 1))
    THEN RangesetItem(s, acc, n1, strtoul(s, n1.end + 1))
    ELSE [rc |-> -1, set |-> {}]

RangesetItems(s, k, acc) ==
    IF ~isdigit(At(s, k)) THEN [rc |-> -1, set |-> {}]
    ELSE RangesetFirst(s, acc, strtoul(s, k))

\* The parsed set; a failure when the text is malformed or the parsed set
\* has no element in the mask.
RangesetMasked(r, mask_set) ==
    IF r.rc # 0 \/ r.set \cap mask_set = {}
    THEN [rc |-> -1, set |-> {}]
    ELSE [rc |-> 0, set |-> r.set]

opng_strparse_rangeset_to_bitset(rangeset_str, mask_set) ==
    RangesetMasked(RangesetItems(rangeset_str, 1, {}), mask_set)

\* CheckRangeset that keeps the part of the set that fits in the mask.
CheckRangesetIntersecting(opt_arg, p, result_mask) ==
    IF p.rc # 0 \/ p.set \cap result_mask = {}
    THEN [err |-> err_option_arg(opt_arg), val |-> {}]
    ELSE [err |-> "", val |-> p.set \cap result_mask]

\* check_rangeset_option once the codec returned p = [rc, set]: "Accept
\* only non-empty rangesets that fit in the given range".
CheckRangeset(opt_arg, p, result_mask) ==
    IF p.rc # 0 \/ (p.set \cap result_mask) # p.set \/ p.set = {}
    THEN [err |-> err_option_arg(opt_arg), val |-> {}]
    ELSE [err |-> "", val |-> p.set]

check_rangeset_option(opt_arg, result_mask) ==
    CheckRangeset(opt_arg,
                  opng_strparse_rangeset_to_bitset(opt_arg, result_mask),
                  result_mask)

(***************************************************************************)
(* The string literals of parse_args.                                      *)
(***************************************************************************)
S_help == <<"h","e","l","p">>
S_backup == <<"b","a","c","k","u","p">>
S_keep == <<"k","e","e","p">>
S_clobber == <<"c","l","o","b","b","e","r">>
S_debug == <<"d","e","b","u","g">>
S_fix == <<"f","i","x">>
S_force == <<"f","o","r","c","e">>
S_full == <<"f","u","l","l">>
S_nb == <<"n","b">>
S_nc == <<"n","c">>
S_np == <<"n","p">>
S_nx == <<"n","x">>
S_nz == <<"n","z">>
S_preserve == <<"p","r","e","s","e","r","v","e">>
S_quiet == <<"q","u","i","e","t">>
S_silent == <<"s","i","l","e","n","t">>
S_simulate == <<"s","i","m","u","l","a","t","e">>
S_snip == <<"s","n","i","p">>
S_v == <<"v">>
S_verbose == <<"v","e","r","b","o","s","e">>
S_version == <<"v","e","r","s","i","o","n">>
S_o == <<"o">>
S_i == <<"i">>
S_f == <<"f">>
S_zc == <<"z","c">>
S_zm == <<"z","m">>
S_zs == <<"z","s">>
S_zw == <<"z","w">>
S_strip == <<"s","t","r","i","p">>
S_out == <<"o","u","t">>
S_dir == <<"d","i","r">>
S_log == <<"l","o","g">>
S_all == <<"a","l","l">>
S_dash == <<"-">>
S_qmark == <<"?">>
S_dotlog == <<".", "l", "o", "g">>

check_obj_option(opt_arg) ==
    IF StrEq(S_all, opt_arg) THEN ""
    ELSE IF Len(opt_arg) = 4 /\ \A k \in 1..4 : isalpha(opt_arg[k])
    THEN "Manipulation of individual chunks is not implemented"
    ELSE err_option_arg(opt_arg)

(***************************************************************************)
(* scan_option: [ret, opt, xopt].  ret = 0: not an "-option" (opt and xopt *)
(* are not written).  opt is the NUL-terminated content of opt_buf.        *)
(***************************************************************************)
OptBufSize == 16

RECURSIVE SkipDash(_, _)
SkipDash(s, k) ==
    IF k <= Len(s) /\ s[k] = "-" THEN SkipDash(s, k + 1) ELSE k

\* First position after k where the key stops: end of string, white space
\* or '='.  The character at k itself is always copied.
RECURSIVE KeyEnd(_, _)
KeyEnd(s, k) ==
    IF k > Len(s) \/ isspace(s[k]) \/ s[k] = "=" THEN k ELSE KeyEnd(s, k + 1)

\* char opt[16], the key buffer of parse_args: mem is its content, byte by
\* byte ("indeterminate" where the scan wrote nothing), oob the indices
\* outside the array that were written to, null_digit whether the
\* normalization got a null pointer from opng_strpbrk_digit.
FreshOptBuf ==
    [mem |-> [k \in 0..(OptBufSize - 1) |-> "indeterminate"],
     oob |-> {}, null_digit |-> FALSE]

\* opt_buf[idx] = ch
StoreOptBuf(b, idx, ch) ==
    IF idx \in 0..(OptBufSize - 1)
    THEN [b EXCEPT !.mem[idx] = ch]
    ELSE [b EXCEPT !.oob = @ \cup {idx}]

\* "truncate -verylongoption": the copy of one character of the key.
CopyKeyChar(b, opt_len, ch) ==
    IF opt_len < OptBufSize THEN StoreOptBuf(b, opt_len, tolower(ch)) ELSE b

\* The copy loop of scan_option over the characters of the key.
RECURSIVE CopyKey(_, _, _)
CopyKey(b, key, opt_len) ==
    IF opt_len >= Len(key) THEN b
    ELSE CopyKey(CopyKeyChar(b, opt_len, key[opt_len + 1]), key, opt_len + 1)

\* FinalizeKey that puts the terminator at opt_len whatever the size.
FinalizeKeyUnbounded(b, opt_len) == StoreOptBuf(b, opt_len, "NUL")

\* "Finalize the normalized option."
FinalizeKey(b, opt_len) ==
    IF OptBufSize > 0
    THEN IF opt_len < OptBufSize
         THEN StoreOptBuf(b, opt_len, "NUL")
         ELSE StoreOptBuf(b, OptBufSize - 1, "NUL")
    ELSE b

\* opt_buf after scan_option found the key `key` in the token.
KeyBuf(key) == FinalizeKey(CopyKey(FreshOptBuf, key, 0), Len(key))

\* strlen(opt), the scan stopping at the end of the array at the latest.
RECURSIVE OptBufStrlen(_, _)
OptBufStrlen(b, k) ==
    IF k >= OptBufSize \/ b.mem[k] = "NUL" THEN k
    ELSE OptBufStrlen(b, k + 1)

\* The C string that opt_buf holds.
OptBufStr(b) == [k \in 1..OptBufStrlen(b, 0) |-> b.mem[k - 1]]

\* opng_strpbrk_digit(opt) - opt, -1 for the null pointer.
RECURSIVE OptBufDigit(_, _)
OptBufDigit(b, k) ==
    IF k >= OptBufSize \/ b.mem[k] = "NUL" THEN -1
    ELSE IF isdigit(b.mem[k]) THEN k
    ELSE OptBufDigit(b, k + 1)

\* "Normalize the options that allow juxtaposed arguments", on opt_buf:
\* opt[opt_len] = '\0' at the first digit of opt, xopt the first digit of
\* arg.
JuxtaposedBuf(b, arg) ==
    IF \/ b.mem[0] \in {"f", "i", "o", "NUL"} /\ isdigit(b.mem[1])
       \/ b.mem[0] = "z" /\ isalpha(b.mem[1]) /\ isdigit(b.mem[2])
    THEN IF OptBufDigit(b, 0) < 0 \/ opng_strpbrk_digit(arg) = 0
         THEN [b EXCEPT !.null_digit = TRUE]
         ELSE StoreOptBuf(b, OptBufDigit(b, 0), "NUL")
    ELSE b

\* The result for a token whose key starts at ptr and stops before q.
ScanKey(str, key, q) ==
    [ret  |-> 1,
     buf  |-> KeyBuf(key),
     opt  |-> OptBufStr(KeyBuf(key)),
     xopt |-> IF At(str, q) = "="
              THEN From(str, q + 1)
              ELSE IF SkipSpace(str, q) <= Len(str)
              THEN From(str, SkipSpace(str, q))
              ELSE Null]

ScanFrom(str, ptr) ==
    ScanKey(str, LowerStr(SubSeq(str, ptr, KeyEnd(str, ptr + 1) - 1)),
            KeyEnd(str, ptr + 1))

scan_option(str) ==
    IF At(str, 1) # "-" \/ Len(str) = 1
    THEN [ret |-> 0, buf |-> FreshOptBuf, opt |-> <<>>, xopt |-> Null]
    ELSE ScanFrom(str, IF SkipDash(str, 2) > Len(str)
                       THEN SkipDash(str, 2) - 1
                       ELSE SkipDash(str, 2))

(***************************************************************************)
(* parse_args, one iteration of its loop.                                  *)
(***************************************************************************)
InitOptions ==
    [optim_level |-> -1, interlace |-> -1, window_bits |-> 0,
     filter_set |-> {}, compr_level_set |-> {}, mem_level_set |-> {},
     strategy_set |-> {},
     backup |-> FALSE, clobber |-> FALSE, debug |-> FALSE, fix |-> FALSE,
     force |-> FALSE, full |-> FALSE, nb |-> FALSE, nc |-> FALSE,
     np |-> FALSE, nz |-> FALSE, preserve |-> FALSE, quiet |-> FALSE,
     simulate |-> FALSE, snip |-> FALSE, strip_all |-> FALSE,
     verbose |-> FALSE,
     out_name |-> Null, dir_name |-> Null, log_name |-> Null]

InitLocalOptions == [help |-> FALSE, version |-> FALSE]

\* NormalizeJuxtaposed that takes the value from the key buffer, which is
\* lowercased and truncated, and not from the token.
NormalizeJuxtaposedFromKey(arg, opt, xopt) ==
    IF \/ At(opt, 1) \in {"f", "i", "o"} /\ isdigit(At(opt, 2))
       \/ At(opt, 1) = "z" /\ isalpha(At(opt, 2)) /\ isdigit(At(opt, 3))
    THEN [opt     |-> SubSeq(opt, 1, opng_strpbrk_digit(opt) - 1),
          opt_len |-> opng_strpbrk_digit(opt) - 1,
          xopt    |-> From(opt, opng_strpbrk_digit(opt))]
    ELSE [opt |-> opt, opt_len |-> Len(opt), xopt |-> xopt]

\* "Normalize the options that allow juxtaposed arguments": [opt, opt_len, xopt].
NormalizeJuxtaposed(arg, opt, xopt) ==
    IF \/ At(opt, 1) \in {"f", "i", "o"} /\ isdigit(At(opt, 2))
       \/ At(opt, 1) = "z" /\ isalpha(At(opt, 2)) /\ isdigit(At(opt, 3))
    THEN LET n == opng_strpbrk_digit(opt) - 1
         IN  [opt     |-> SubSeq(opt, 1, n),
              opt_len |-> n,
              xopt    |-> From(arg, opng_strpbrk_digit(arg))]
    ELSE [opt |-> opt, opt_len |-> Len(opt), xopt |-> xopt]

\* The chain of tests on the simple options, in the order of the code.
\* "" when none matches ("possibly an option with an argument").
SimpleOption(opt, opt_len) ==
    IF StrEq(S_dash, opt) THEN "--"
    ELSE IF StrEq(S_qmark, opt) \/ StrnEq(S_help, opt, opt_len) THEN "help"
    ELSE IF StrnEq(S_backup, opt, opt_len) \/ StrnEq(S_keep, opt, opt_len)
         THEN "backup"
    ELSE IF StrnEq(S_clobber, opt, opt_len) THEN "clobber"
    ELSE IF StrEq(S_debug, opt) THEN "debug"
    ELSE IF StrnEq(S_fix, opt, opt_len) /\ opt_len >= 2 THEN "fix"
    ELSE IF StrnEq(S_force, opt, opt_len) /\ opt_len >= 2 THEN "force"
    ELSE IF StrnEq(S_full, opt, opt_len) /\ opt_len >= 2 THEN "full"
    ELSE IF StrEq(S_nb, opt) THEN "nb"
    ELSE IF StrEq(S_nc, opt) THEN "nc"
    ELSE IF StrEq(S_np, opt) THEN "np"
    ELSE IF StrEq(S_nx, opt) THEN "nx"
    ELSE IF StrEq(S_nz, opt) THEN "nz"
    ELSE IF StrnEq(S_preserve, opt, opt_len) THEN "preserve"
    ELSE IF \/ StrnEq(S_quiet, opt, opt_len)
            \/ StrnEq(S_silent, opt, opt_len) /\ opt_len >= 3
         THEN "quiet"
    ELSE IF StrnEq(S_simulate, opt, opt_len) /\ opt_len >= 3 THEN "simulate"
    ELSE IF StrnEq(S_snip, opt, opt_len) /\ opt_len >= 2 THEN "snip"
    ELSE IF StrEq(S_v, opt) THEN "v"
    ELSE IF StrnEq(S_verbose, opt, opt_len) /\ opt_len >= 4 THEN "verbose"
    ELSE IF StrnEq(S_version, opt, opt_len) /\ opt_len >= 4 THEN "version"
    ELSE ""

\* ValueOption with the minimum length of -strip forgotten.
ValueOptionStripAnyLength(opt, opt_len) ==
    IF StrEq(S_o, opt) THEN "o"
    ELSE IF StrEq(S_i, opt) THEN "i"
    ELSE IF StrEq(S_f, opt) THEN "f"
    ELSE IF StrEq(S_zc, opt) THEN "zc"
    ELSE IF StrEq(S_zm, opt) THEN "zm"
    ELSE IF StrEq(S_zs, opt) THEN "zs"
    ELSE IF StrEq(S_zw, opt) THEN "zw"
    ELSE IF StrnEq(S_strip, opt, opt_len) THEN "strip"
    ELSE IF StrnEq(S_out, opt, opt_len) /\ opt_len >= 2 THEN "out"
    ELSE IF StrnEq(S_dir, opt, opt_len) THEN "dir"
    ELSE IF StrnEq(S_log, opt, opt_len) THEN "log"
    ELSE ""

\* The chain of tests on the options that have arguments.
\* "" when none matches ("Unrecognized option").
ValueOption(opt, opt_len) ==
    IF StrEq(S_o, opt) THEN "o"
    ELSE IF StrEq(S_i, opt) THEN "i"
    ELSE IF StrEq(S_f, opt) THEN "f"
    ELSE IF StrEq(S_zc, opt) THEN "zc"
    ELSE IF StrEq(S_zm, opt) THEN "zm"
    ELSE IF StrEq(S_zs, opt) THEN "zs"
    ELSE IF StrEq(S_zw, opt) THEN "zw"
    ELSE IF StrnEq(S_strip, opt, opt_len) /\ opt_len >= 2 THEN "strip"
    ELSE IF StrnEq(S_out, opt, opt_len) /\ opt_len >= 2 THEN "out"
    ELSE IF StrnEq(S_dir, opt, opt_len) THEN "dir"
    ELSE IF StrnEq(S_log, opt, opt_len) THEN "log"
    ELSE ""

\* OptionTests whose test of -out lacks the minimum length.
OptionTestsOutAnyLength(opt, opt_len) ==
    LET T(holds, tag) == IF holds THEN {tag} ELSE {}
    IN  T(StrEq(S_dash, opt), "--")
        \cup T(StrEq(S_qmark, opt) \/ StrnEq(S_help, opt, opt_len), "help")
        \cup T(StrnEq(S_backup, opt, opt_len) \/ StrnEq(S_keep, opt, opt_len),
               "backup")
        \cup T(StrnEq(S_clobber, opt, opt_len), "clobber")
        \cup T(StrEq(S_debug, opt), "debug")
        \cup T(StrnEq(S_fix, opt, opt_len) /\ opt_len >= 2, "fix")
        \cup T(StrnEq(S_force, opt, opt_len) /\ opt_len >= 2, "force")
        \cup T(StrnEq(S_full, opt, opt_len) /\ opt_len >= 2, "full")
        \cup T(StrEq(S_nb, opt), "nb")
        \cup T(StrEq(S_nc, opt), "nc")
        \cup T(StrEq(S_np, opt), "np")
        \cup T(StrEq(S_nx, opt), "nx")
        \cup T(StrEq(S_nz, opt), "nz")
        \cup T(StrnEq(S_preserve, opt, opt_len), "preserve")
        \cup T(\/ StrnEq(S_quiet, opt, opt_len)
               \/ StrnEq(S_silent, opt, opt_len) /\ opt_len >= 3, "quiet")
        \cup T(StrnEq(S_simulate, opt, opt_len) /\ opt_len >= 3, "simulate")
        \cup T(StrnEq(S_snip, opt, opt_len) /\ opt_len >= 2, "snip")
        \cup T(StrEq(S_v, opt), "v")
        \cup T(StrnEq(S_verbose, opt, opt_len) /\ opt_len >= 4, "verbose")
        \cup T(StrnEq(S_version, opt, opt_len) /\ opt_len >= 4, "version")
        \cup T(StrEq(S_o, opt), "o")
        \cup T(StrEq(S_i, opt), "i")
        \cup T(StrEq(S_f, opt), "f")
        \cup T(StrEq(S_zc, opt), "zc")
        \cup T(StrEq(S_zm, opt), "zm")
        \cup T(StrEq(S_zs, opt), "zs")
        \cup T(StrEq(S_zw, opt), "zw")
        \cup T(StrnEq(S_strip, opt, opt_len) /\ opt_len >= 2, "strip")
        \cup T(StrnEq(S_out, opt, opt_len), "out")
        \cup T(StrnEq(S_dir, opt, opt_len), "dir")
        \cup T(StrnEq(S_log, opt, opt_len), "log")

\* The tests that parse_args makes on the key, each taken by itself: the
\* options whose test holds of opt, whatever the tests before it gave.
OptionTests(opt, opt_len) ==
    LET T(holds, tag) == IF holds THEN {tag} ELSE {}
    IN  T(StrEq(S_dash, opt), "--")
        \cup T(StrEq(S_qmark, opt) \/ StrnEq(S_help, opt, opt_len), "help")
        \cup T(StrnEq(S_backup, opt, opt_len) \/ StrnEq(S_keep, opt, opt_len),
               "backup")
        \cup T(StrnEq(S_clobber, opt, opt_len), "clobber")
        \cup T(StrEq(S_debug, opt), "debug")
        \cup T(StrnEq(S_fix, opt, opt_len) /\ opt_len >= 2, "fix")
        \cup T(StrnEq(S_force, opt, opt_len) /\ opt_len >= 2, "force")
        \cup T(StrnEq(S_full, opt, opt_len) /\ opt_len >= 2, "full")
        \cup T(StrEq(S_nb, opt), "nb")
        \cup T(StrEq(S_nc, opt), "nc")
        \cup T(StrEq(S_np, opt), "np")
        \cup T(StrEq(S_nx, opt), "nx")
        \cup T(StrEq(S_nz, opt), "nz")
        \cup T(StrnEq(S_preserve, opt, opt_len), "preserve")
        \cup T(\/ StrnEq(S_quiet, opt, opt_len)
               \/ StrnEq(S_silent, opt, opt_len) /\ opt_len >= 3, "quiet")
        \cup T(StrnEq(S_simulate, opt, opt_len) /\ opt_len >= 3, "simulate")
        \cup T(StrnEq(S_snip, opt, opt_len) /\ opt_len >= 2, "snip")
        \cup T(StrEq(S_v, opt), "v")
        \cup T(StrnEq(S_verbose, opt, opt_len) /\ opt_len >= 4, "verbose")
        \cup T(StrnEq(S_version, opt, opt_len) /\ opt_len >= 4, "version")
        \cup T(StrEq(S_o, opt), "o")
        \cup T(StrEq(S_i, opt), "i")
        \cup T(StrEq(S_f, opt), "f")
        \cup T(StrEq(S_zc, opt), "zc")
        \cup T(StrEq(S_zm, opt), "zm")
        \cup T(StrEq(S_zs, opt), "zs")
        \cup T(StrEq(S_zw, opt), "zw")
        \cup T(StrnEq(S_strip, opt, opt_len) /\ opt_len >= 2, "strip")
        \cup T(StrnEq(S_out, opt, opt_len) /\ opt_len >= 2, "out")
        \cup T(StrnEq(S_dir, opt, opt_len), "dir")
        \cup T(StrnEq(S_log, opt, opt_len), "log")

\* The assignments of the simple option `tag` to options.
SetSimpleOption(o, tag) ==
    CASE tag = "backup"   -> [o EXCEPT !.backup = TRUE]
      [] tag = "clobber"  -> [o EXCEPT !.clobber = TRUE]
      [] tag = "debug"    -> [o EXCEPT !.debug = TRUE]
      [] tag = "fix"      -> [o EXCEPT !.fix = TRUE]
      [] tag = "force"    -> [o EXCEPT !.force = TRUE]
      [] tag = "full"     -> [o EXCEPT !.full = TRUE]
      [] tag = "nb"       -> [o EXCEPT !.nb = TRUE]
      [] tag = "nc"       -> [o EXCEPT !.nc = TRUE]
      [] tag = "np"       -> [o EXCEPT !.np = TRUE]
      [] tag = "nx"       -> [o EXCEPT !.nb = TRUE, !.nc = TRUE, !.np = TRUE]
      [] tag = "nz"       -> [o EXCEPT !.nz = TRUE]
      [] tag = "preserve" -> [o EXCEPT !.preserve = TRUE]
      [] tag = "quiet"    -> [o EXCEPT !.quiet = TRUE]
      [] tag = "simulate" -> [o EXCEPT !.simulate = TRUE]
      [] tag = "snip"     -> [o EXCEPT !.snip = TRUE]
      [] tag = "v"        -> [o EXCEPT !.verbose = TRUE]
      [] tag = "verbose"  -> [o EXCEPT !.verbose = TRUE]
      [] OTHER            -> o

\* The assignments of the simple option `tag` to local_options.
SetLocalOption(l, tag) ==
    CASE tag = "help"    -> [l EXCEPT !.help = TRUE]
      [] tag = "v"       -> [l EXCEPT !.version = TRUE]
      [] tag = "version" -> [l EXCEPT !.version = TRUE]
      [] OTHER           -> l

\* SetSingleSlot where the last occurrence wins.
SetSingleSlotLastWins(cur, unset, chk, conflict) ==
    IF chk.err # "" THEN [err |-> chk.err, val |-> cur]
    ELSE [err |-> "", val |-> chk.val]

\* A single-slot numeric field: [err, val] of assigning the checked value
\* chk to a field that holds cur, unset being `unset`.
SetSingleSlot(cur, unset, chk, conflict) ==
    IF chk.err # "" THEN [err |-> chk.err, val |-> cur]
    ELSE IF cur = unset THEN [err |-> "", val |-> chk.val]
    ELSE IF cur # chk.val THEN [err |-> conflict, val |-> cur]
    ELSE [err |-> "", val |-> cur]

\* A string field that may be set once: [err, val].
SetStringOnce(cur, xopt, multiple) ==
    IF cur # Null THEN [err |-> multiple, val |-> cur]
    ELSE IF xopt = <<>> THEN [err |-> err_option_arg(Null), val |-> cur]
    ELSE [err |-> "", val |-> xopt]

\* The result [err, options] of an option whose value r = [err, val] was
\* checked: the field is written with r.val.
WithOptimLevel(o, r) == [err |-> r.err, options |-> [o EXCEPT !.optim_level = r.val]]
WithInterlace(o, r) == [err |-> r.err, options |-> [o EXCEPT !.interlace = r.val]]
WithWindowBits(o, r) == [err |-> r.err, options |-> [o EXCEPT !.window_bits = r.val]]
WithFilterSet(o, r) == [err |-> r.err, options |-> [o EXCEPT !.filter_set = @ \cup r.val]]
\* WithComprLevelSet where the last occurrence replaces the set.
WithComprLevelSetLastWins(o, r) == [err |-> r.err, options |-> [o EXCEPT !.compr_level_set = r.val]]

WithComprLevelSet(o, r) == [err |-> r.err, options |-> [o EXCEPT !.compr_level_set = @ \cup r.val]]
WithMemLevelSet(o, r) == [err |-> r.err, options |-> [o EXCEPT !.mem_level_set = @ \cup r.val]]
WithStrategySet(o, r) == [err |-> r.err, options |-> [o EXCEPT !.strategy_set = @ \cup r.val]]
WithStripAll(o, e) == [err |-> e, options |-> IF e = "" THEN [o EXCEPT !.strip_all = TRUE] ELSE o]
WithOutName(o, r) == [err |-> r.err, options |-> [o EXCEPT !.out_name = r.val]]
WithDirName(o, r) == [err |-> r.err, options |-> [o EXCEPT !.dir_name = r.val]]
WithLogName(o, r) == [err |-> r.err, options |-> [o EXCEPT !.log_name = r.val]]

\* "Check the options that have option arguments": [err, options].
SetValueOption(o, tag, xopt) ==
    CASE tag = "o" ->
           WithOptimLevel(o, SetSingleSlot(o.optim_level, -1,
               check_num_option(xopt, 0, INT_MAX),
               "Multiple optimization levels are not permitted"))
      [] tag = "i" ->
           WithInterlace(o, SetSingleSlot(o.interlace, -1,
               check_num_option(xopt, 0, 1),
               "Multiple interlace types are not permitted"))
      [] tag = "f" ->
           WithFilterSet(o,
               check_rangeset_option(xopt, OPNG_FILTER_SET_MASK))
      [] tag = "zc" ->
           WithComprLevelSet(o,
               check_rangeset_option(xopt, OPNG_COMPR_LEVEL_SET_MASK))
      [] tag = "zm" ->
           WithMemLevelSet(o,
               check_rangeset_option(xopt, OPNG_MEM_LEVEL_SET_MASK))
      [] tag = "zs" ->
           WithStrategySet(o,
               check_rangeset_option(xopt, OPNG_STRATEGY_SET_MASK))
      [] tag = "zw" ->
           WithWindowBits(o, SetSingleSlot(o.window_bits, 0,
               check_power2_option(xopt, 8, 15),
               "Multiple window sizes are not permitted"))
      [] tag = "strip" ->
           WithStripAll(o, check_obj_option(xopt))
      [] tag = "out" ->
           WithOutName(o, SetStringOnce(o.out_name, xopt,
               "Multiple output file names are not permitted"))
      [] tag = "dir" ->
           WithDirName(o, SetStringOnce(o.dir_name, xopt,
               "Multiple output dir names are not permitted"))
      [] tag = "log" ->
           WithLogName(o, SetStringOnce(o.log_name, xopt,
               "Multiple log file names are not permitted"))
      [] OTHER -> [err |-> "Unrecognized option", options |-> o]

EXIT_SUCCESS == 0
EXIT_FAILURE == 1
EX_SOFTWARE == 70

\* No conversion by opng_str2ulong was made.
NoNum == [rc |-> 1, val |-> UL(0, 0)]

NoScan == [idx |-> 0, opt |-> <<>>, tag |-> "", simple |-> FALSE,
           xopt |-> Null, consumed |-> 0, num |-> NoNum]

\* What opng_str2ulong returned to the check of the option vtag: [rc, val].
ConvertedBy(vtag, xopt) ==
    IF vtag = "zw" THEN opng_str2ulong(xopt, TRUE)
    ELSE IF vtag \in {"o", "i"} THEN opng_str2ulong(xopt, FALSE)
    ELSE NoNum

\* The state st = [argv, i, stop_switch, file_count, options, local_options]
\* of parse_args after an iteration that called no error() and touched
\* nothing: the starting point of the three outcomes below.
ParseBase(st) ==
    [argv |-> st.argv, i |-> st.i + 1, stop_switch |-> st.stop_switch,
     file_count |-> st.file_count, options |-> st.options,
     local_options |-> st.local_options,
     err |-> "", counted |-> FALSE, scan |-> NoScan]

\* argv[i] is a file name: "leave file names for process_files()".
ParseFileName(st) ==
    [ParseBase(st) EXCEPT !.file_count = @ + 1, !.counted = TRUE]

\* ParseSimpleOption that accepts an inline value.
ParseSimpleOptionAllowingArg(st, opt, xopt, stag) ==
    [ParseBase(st) EXCEPT
        !.argv = [@ EXCEPT ![st.i] = Null],
        !.stop_switch = (@ \/ stag = "--"),
        !.options = SetSimpleOption(@, stag),
        !.local_options = SetLocalOption(@, stag),
        !.scan = [idx |-> st.i, opt |-> opt, tag |-> stag, simple |-> TRUE,
                  xopt |-> xopt, consumed |-> 0, num |-> NoNum]]

\* argv[i] is the simple option stag, scanned with the inline value xopt.
ParseSimpleOption(st, opt, xopt, stag) ==
    [ParseBase(st) EXCEPT
        !.argv = [@ EXCEPT ![st.i] = Null],
        !.stop_switch = (@ \/ stag = "--"),
        !.options = SetSimpleOption(@, stag),
        !.local_options = SetLocalOption(@, stag),
        !.err = IF xopt # Null THEN "No argument allowed" ELSE "",
        !.scan = [idx |-> st.i, opt |-> opt, tag |-> stag, simple |-> TRUE,
                  xopt |-> xopt, consumed |-> 0, num |-> NoNum]]

\* ParseValueSet that does not hide the token it took as the value.
ParseValueSetLeavingArg(st, opt, vtag, xopt, inline, take, r) ==
    [ParseBase(st) EXCEPT
        !.argv = [@ EXCEPT ![st.i] = Null],
        !.i = IF inline THEN st.i + 1 ELSE st.i + 2,
        !.options = r.options,
        !.err = r.err,
        !.scan = [idx |-> st.i, opt |-> opt, tag |-> vtag, simple |-> FALSE,
                  xopt |-> xopt,
                  consumed |-> IF take THEN st.i + 1 ELSE 0,
                  num |-> ConvertedBy(vtag, xopt)]]

\* argv[i] is not a simple option; its value is xopt, which was inline
\* (next = 0), taken from argv[i + 1] (take) or assumed empty.
ParseValueSet(st, opt, vtag, xopt, inline, take, r) ==
    [ParseBase(st) EXCEPT
        !.argv = IF take
                 THEN [@ EXCEPT ![st.i] = Null, ![st.i + 1] = Null]
                 ELSE [@ EXCEPT ![st.i] = Null],
        !.i = IF inline THEN st.i + 1 ELSE st.i + 2,
        !.options = r.options,
        !.err = r.err,
        !.scan = [idx |-> st.i, opt |-> opt, tag |-> vtag, simple |-> FALSE,
                  xopt |-> xopt,
                  consumed |-> IF take THEN st.i + 1 ELSE 0,
                  num |-> ConvertedBy(vtag, xopt)]]

ParseValueArg(st, opt, vtag, xopt, inline, take) ==
    ParseValueSet(st, opt, vtag, xopt, inline, take,
                  SetValueOption(st.options, vtag, xopt))

ParseValueOption(st, opt, opt_len, xopt) ==
    ParseValueArg(st, opt, ValueOption(opt, opt_len),
                  IF xopt # Null THEN xopt
                  ELSE IF st.i + 1 <= Len(st.argv) THEN st.argv[st.i + 1]
                  ELSE <<>>,
                  xopt # Null,
                  xopt = Null /\ st.i + 1 <= Len(st.argv))

ParseOptionTag(st, nm, stag) ==
    IF stag # ""
    THEN ParseSimpleOption(st, nm.opt, nm.xopt, stag)
    ELSE ParseValueOption(st, nm.opt, nm.opt_len, nm.xopt)

ParseNormalized(st, nm) ==
    ParseOptionTag(st, nm, SimpleOption(nm.opt, nm.opt_len))

\* ParseScanned without the test of stop_switch.
ParseScannedIgnoringStop(st, sc) ==
    IF sc.ret < 1
    THEN ParseFileName(st)
    ELSE ParseNormalized(st,
             NormalizeJuxtaposed(st.argv[st.i], sc.opt, sc.xopt))

ParseScanned(st, sc) ==
    IF st.stop_switch \/ sc.ret < 1
    THEN ParseFileName(st)
    ELSE ParseNormalized(st,
             NormalizeJuxtaposed(st.argv[st.i], sc.opt, sc.xopt))

\* opt_buf after the iteration on the token arg, b being opt_buf before it.
OptBufAfter(b, stop, arg) ==
    IF stop \/ scan_option(arg).ret < 1 THEN b
    ELSE JuxtaposedBuf(scan_option(arg).buf, arg)

\* One iteration of "Iterate over args": the state after it, with err # ""
\* when error() was called, and `scan` recording what it made of argv[i].
ParseIteration(st) == ParseScanned(st, scan_option(st.argv[st.i]))

\* The three checks of "Finalize" in parse_args.
OutWithSeveralFilesOffByOne(o, n) == o.out_name # Null /\ n > 2

OutWithSeveralFiles(o, n) == o.out_name # Null /\ n > 1

OutWithDirWrongField(o) == o.out_name # Null /\ o.log_name # Null

OutWithDir(o) == o.out_name # Null /\ o.dir_name # Null

LogNameRejected(o) ==
    /\ o.log_name # Null
    /\ ~opng_strcasecmp_eq(S_dotlog, opng_strtail(o.log_name, 4))

\* ParseFinalization that looks at file_count before the help flag.
ParseFinalizationFilesFirst(o, l, file_count) ==
    IF OutWithSeveralFiles(o, file_count)
    THEN [err |-> "The option -out requires one input file",
          operation |-> "OP_RUN"]
    ELSE IF OutWithDir(o)
    THEN [err |-> "The options -out and -dir are mutually exclusive",
          operation |-> "OP_RUN"]
    ELSE IF LogNameRejected(o)
    THEN [err |-> "the log file name must end with .log",
          operation |-> "OP_RUN"]
    ELSE [err |-> "",
          operation |-> IF file_count # 0 THEN "OP_RUN"
                        ELSE IF l.help THEN "OP_SHOW_HELP"
                        ELSE IF l.version THEN "OP_SHOW_VERSION"
                        ELSE "OP_SHOW_HELP"]

\* "Finalize" of parse_args: [err, operation].
ParseFinalization(o, l, file_count) ==
    IF OutWithSeveralFiles(o, file_count)
    THEN [err |-> "The option -out requires one input file",
          operation |-> "OP_RUN"]
    ELSE IF OutWithDir(o)
    THEN [err |-> "The options -out and -dir are mutually exclusive",
          operation |-> "OP_RUN"]
    ELSE IF LogNameRejected(o)
    THEN [err |-> "the log file name must end with .log",
          operation |-> "OP_RUN"]
    ELSE [err |-> "",
          operation |-> IF l.help THEN "OP_SHOW_HELP"
                        ELSE IF file_count # 0 THEN "OP_RUN"
                        ELSE IF l.version THEN "OP_SHOW_VERSION"
                        ELSE "OP_SHOW_HELP"]

\* parse_args as a whole on the command line st.argv, from the state st:
\* the outcome [fatal, options, local_options, operation, files], files
\* being the tokens counted in file_count, in order.
FatalOutcome ==
    [fatal |-> TRUE, options |-> InitOptions,
     local_options |-> InitLocalOptions, operation |-> "", files |-> <<>>]

ResolveEnd(st, files, f) ==
    IF f.err # "" THEN FatalOutcome
    ELSE [fatal |-> FALSE, options |-> st.options,
          local_options |-> st.local_options, operation |-> f.operation,
          files |-> files]

RECURSIVE ResolveFrom(_, _)
ResolveStep(n, st, files) ==
    IF n.err # "" THEN FatalOutcome
    ELSE ResolveFrom(n, IF n.counted THEN Append(files, st.argv[st.i])
                        ELSE files)

ResolveFrom(st, files) ==
    IF st.i > Len(st.argv)
    THEN ResolveEnd(st, files,
             ParseFinalization(st.options, st.local_options, st.file_count))
    ELSE ResolveStep(ParseIteration(st), st, files)

Resolve(tokens) ==
    ResolveFrom([argv |-> tokens, i |-> 1, stop_switch |-> FALSE,
                 file_count |-> 0, options |-> InitOptions,
                 local_options |-> InitLocalOptions], <<>>)

(***************************************************************************)
(* Status reporter.                                                        *)
(***************************************************************************)
\* vfprintf of a format whose only conversions are %s.
RECURSIVE Format(_, _)
Format(fmt, args) ==
    IF fmt = <<>> THEN <<>>
    ELSE IF fmt[1] = "%" /\ At(fmt, 2) = "s"
    THEN args[1] \o Format(From(fmt, 3), Tail(args))
    ELSE <<fmt[1]>> \o Format(Tail(fmt), args)

\* The texts of the messages, shortened to a letter and their line ends.
msg_intro == <<"I", ".", "\n">>
msg_license == <<"L", "\n">>
msg_help_synopsis == <<"S", "\n">>
msg_help_basic_options == <<"B", "\n">>
msg_help_options == <<"O", "\n">>
msg_help_examples == <<"E", "\n">>
msg_help_more == <<"M", "\n">>
msg_log_deprecated == <<"D">>
lib_version == <<"1">>

Fmt_s_nl == <<"%", "s", "\n">>
Fmt_warning == <<"W", ":", "%", "s", "\n", "\n">>
Fmt_help == <<"%", "s", "%", "s", "%", "s">>
Fmt_basic_help == <<"%", "s", "%", "s", "%", "s", "%", "s">>
Fmt_using == <<"U", "%", "s", "z", "%", "s", "\n">>

\* app_printf on the reporter state r = [start_of_line, con_file, log_file,
\* con_out, log_out].
app_printf(r, fmt, args) ==
    IF fmt = <<>> THEN r
    ELSE [r EXCEPT
            !.start_of_line = (fmt[Len(fmt)] = "\n"),
            !.con_out = IF r.con_file # "NULL"
                        THEN @ \o Format(fmt, args) ELSE @,
            !.log_out = IF r.log_file # "NULL"
                        THEN @ \o Format(fmt, args) ELSE @]

\* fputs of con_str to con_file and of log_str to log_file, each when the
\* stream is not NULL.
Put(r, con_str, log_str) ==
    [r EXCEPT !.con_out = IF r.con_file # "NULL" THEN @ \o con_str ELSE @,
              !.log_out = IF r.log_file # "NULL" THEN @ \o log_str ELSE @]

\* The control codes '\r' and '\v', and the bound of "Minus N".
CR == 13
VT == 11
EraseLimit == 80

\* Spaces that stops one character short.
SpacesOneShort(n) == [k \in 1..(n - 1) |-> " "]

Spaces(n) == [k \in 1..n |-> " "]

ErrMarker == <<"<", "?", ">">>

\* app_print_cntrl whose VT writes a new line whatever the line state.
app_print_cntrl_always_newline(r, cntrl_code) ==
    IF cntrl_code = CR
    THEN Put([r EXCEPT !.start_of_line = TRUE], <<"\r">>, <<"\n">>)
    ELSE IF cntrl_code = VT
    THEN Put([r EXCEPT !.start_of_line = TRUE], <<"\n">>, <<"\n">>)
    ELSE IF cntrl_code < 0 /\ cntrl_code > -EraseLimit /\ r.start_of_line
    THEN Put(r, Spaces(-cntrl_code) \o <<"\r">>, <<>>)
    ELSE Put(r, ErrMarker, ErrMarker)

\* app_print_cntrl on the reporter state r.
app_print_cntrl(r, cntrl_code) ==
    IF cntrl_code = CR
    THEN Put([r EXCEPT !.start_of_line = TRUE], <<"\r">>, <<"\n">>)
    ELSE IF cntrl_code = VT
    THEN IF ~r.start_of_line
         THEN Put([r EXCEPT !.start_of_line = TRUE], <<"\n">>, <<"\n">>)
         ELSE Put(r, <<>>, <<>>)
    ELSE IF cntrl_code < 0 /\ cntrl_code > -EraseLimit /\ r.start_of_line
    THEN Put(r, Spaces(-cntrl_code) \o <<"\r">>, <<>>)
    ELSE Put(r, ErrMarker, ErrMarker)

(***************************************************************************)
(* Command lines.                                                          *)
(***************************************************************************)
T_a == <<"a">>
T_b == <<"b">>
T_empty == <<>>
T_stop == <<"-","-">>
T_o2 == <<"-","o","2">>
T_o3 == <<"-","o","3">>
T_o == <<"-","o">>
T_out_x == <<"-","o","u","t","=","x">>
T_dir_y == <<"-","d","i","r","=","y">>
T_out == <<"-","o","u","t">>
T_log_ok == <<"-","l","o","g","=","n",".","l","o","g">>
T_s == <<"-","s">>
T_o_eq2 == <<"-","o","=","0","2">>
T_i0 == <<"-","i","0">>
T_i1 == <<"-","i","1">>
T_zw256 == <<"-","z","w","2","5","6">>
T_zw32k == <<"-","z","w","3","2","k">>
T_zw_eq == <<"-","z","w","=","2","5","6">>
T_qmark == <<"-","?">>
T_H == <<"-","H">>
T_helpx == <<"-","h","e","l","p","x">>
T_hh == <<"-","-","h","e","l","p">>
T_x == <<"-","x">>
T_n == <<"-","n">>
T_z == <<"-","z">>
T_de == <<"-","d","e">>
T_debu == <<"-","d","e","b","u">>
T_si == <<"-","s","i">>
T_ve == <<"-","v","e">>
T_ver == <<"-","v","e","r">>
T_fi1 == <<"-","f","i","1">>
T_verbosity == <<"-","v","e","r","b","o","s","i","t","y">>
T_long == <<"-","s","i","m","u","l","a","t","e","s","i","m","u","l","a","t","e">>
T_q_eq == <<"-","q","=","1">>
T_h_sp == <<"-","h"," ","x">>
T_f05 == <<"-","f","0","-","5">>
T_zc9 == <<"-","z","c","9">>
T_zm8 == <<"-","z","m","=","8">>
T_zs == <<"-","z","s">>
T_strip_all == <<"-","s","t","r","i","p","=","a","l","l">>
T_st_idat == <<"-","s","t","=","I","D","A","T">>
T_log_up == <<"-","l","o","g","=","N",".","L","O","G">>
T_log_txt == <<"-","l","o","g","=","n",".","t","x","t">>
T_log_log == <<"-","l","o","g","=","l","o","g">>
T_log_dot == <<"-","l","o","g","=",".","l","o","g">>
T_log_x == <<"-","l","o","g","=",".","l","o","g","x">>
T_l == <<"-","l">>
T_d == <<"-","d">>
T_ou == <<"-","o","u">>
T_log_e == <<"-","l","o","g","=">>
T_o_big == <<"-","o","4","2","9","4","9","6","7","2","9","5">>
T_o_huge == <<"-","o","9","9","9","9","9","9","9","9","9","9","9">>
T_zw_bad == <<"-","z","w","3","0","0">>
T_i2 == <<"-","i","2">>
T_one == <<"1">>
T_nlog == <<"n",".","l","o","g">>
T_all == <<"a","l","l">>
T_stop3 == <<"-","-","-">>
T_q_eqe == <<"-","q","=">>
T_q_sp == <<"-","q"," ">>
T_v_eq == <<"-","-","V","e","r","s","=","1">>
T_stop_eq == <<"-","-","=","x">>
T_stop_sp == <<"-","-"," ","x">>
T_O3 == <<"-","O","3">>
T_zc39 == <<"-","-","z","c","3","-","9">>
T_ZM9 == <<"-","Z","M","9">>
T_zs03 == <<"-","z","s","0","-","3">>
T_o3eq == <<"-","o","3","=","4">>
T_o3sp == <<"-","o","3"," ","4">>
T_o_long == <<"-","o","0","0","0","0","0","0","0","0","0","0","0","0","0","0","0","3">>
T_f7 == <<"-","f","7">>
T_f357 == <<"-","f","3","-","5",",","7">>
T_f35 == <<"-","f","=","3","-","5">>
T_zs457 == <<"-","z","s","4","-","5",",","7">>
T_f53 == <<"-","f","5","-","3">>
T_f3cc5 == <<"-","f","3",",",",","5">>
T_zc09 == <<"-","z","c","0","-","9">>
T_zc3x == <<"-","z","c","=","3","-","x">>
T_f40 == <<"-","f","4","0">>
T_key15 == <<"-","A","B","C","D","E","F","G","H","I","J","K","L","M","N","O">>
T_key16 == <<"-","A","B","C","D","E","F","G","H","I","J","K","L","M","N","O",
             "P">>
T_long_eq == <<"-","s","i","m","u","l","a","t","e","s","i","m","u","l","a","t",
               "e","s","i","m","u","l","a","t","e","=","1">>
T_zc_long == <<"-","Z","C","1","-","2",",","3","-","4",",","5","-","6",",",
               "7","-","8",",","9">>
T_dashes == <<"-","-","-","-","-","-","-","-","-","-","-","-","-","-","-","-",
              "-","-","-","x">>

\* Tokens that are combined freely, up to MaxArgs of them.
CoreTokens ==
    {T_a, T_b, T_empty, T_stop, T_o2, T_o3, T_o, T_out_x, T_dir_y, T_out,
     T_log_ok, T_s}

\* Occurrences of the single-slot numeric options, combined freely.
SlotTokens ==
    {T_o2, T_o3, T_o_eq2, T_i0, T_i1, T_zw256, T_zw32k, T_zw_eq, T_a}

\* Every abbreviation of every name of the option table, as a token.
OptionNames ==
    {S_help, S_backup, S_keep, S_clobber, S_debug, S_fix, S_force, S_full,
     S_nb, S_nc, S_np, S_nx, S_nz, S_preserve, S_quiet, S_silent,
     S_simulate, S_snip, S_v, S_verbose, S_version, S_o, S_i, S_f, S_zc,
     S_zm, S_zs, S_zw, S_strip, S_out, S_dir, S_log}

PrefixTokens ==
    {S_dash \o SubSeq(n, 1, k) : <<n, k>> \in
        {p \in OptionNames \X (1..8) : p[2] <= Len(p[1])}}

\* Further tokens: near misses, inline values, log names, numerals.
KeyTokens ==
    PrefixTokens \cup
    {T_qmark, T_H, T_helpx, T_hh, T_x, T_n, T_z, T_de, T_debu, T_si, T_ve,
     T_ver, T_fi1, T_verbosity, T_long, T_q_eq, T_h_sp, T_f05, T_zc9,
     T_zm8, T_zs, T_strip_all, T_st_idat, T_log_up, T_log_txt, T_log_log,
     T_log_dot, T_log_x, T_l, T_d, T_ou, T_log_e, T_o_big, T_o_huge,
     T_zw_bad, T_i2, T_stop3, T_q_eqe, T_q_sp, T_v_eq, T_stop_eq,
     T_stop_sp, T_O3, T_zc39, T_ZM9, T_zs03, T_o3eq, T_o3sp, T_o_long, T_f7,
     T_f357, T_f35, T_zs457, T_f53, T_f3cc5, T_zc09, T_zc3x, T_f40,
     T_key15, T_key16, T_long_eq, T_zc_long, T_dashes}

\* -zw with a decimal number and a suffix: numbers around the largest that
\* each multiplier takes without overflow (4194303 k, 4095 M, 3 G), and
\* numbers that strtoul itself cannot hold.
NumStrs ==
    {<<"0">>, <<"2">>, <<"3">>, <<"4">>, <<"0","3","2">>, <<"6","4">>,
     <<"4","0","9","5">>, <<"4","0","9","6">>,
     <<"4","1","9","4","3","0","3">>, <<"4","1","9","4","3","0","4">>,
     <<"4","1","9","4","3","0","5">>,
     <<"4","2","9","4","9","6","7","2","9","5">>,
     <<"4","2","9","4","9","6","7","2","9","6">>,
     <<"9","9","9","9","9","9","9","9","9","9","9">>}

Suffixes == {<<>>, <<"k">>, <<"K">>, <<"M">>, <<"G">>, <<"m">>, <<"k", "k">>}

NumTokens == {<<"-","z","w">> \o n \o x : <<n, x>> \in NumStrs \X Suffixes}

\* What may follow a token of KeyTokens.
FollowTokens ==
    {T_a, T_one, T_nlog, T_all, T_o3}

MaxArgs == 3

RECURSIVE SeqsUpTo(_, _)
SeqsUpTo(S, n) ==
    IF n = 0 THEN {<<>>}
    ELSE LET shorter == SeqsUpTo(S, n - 1)
         IN  shorter \cup {Append(q, t) : <<q, t>> \in shorter \X S}

\* The command lines on which the engine makes callbacks, and how many it
\* makes at most in a run.
T_q == <<"-","q">>

CallbackLines ==
    {<<T_a>>, <<T_a, T_b>>, <<T_q, T_a>>, <<T_log_ok, T_a>>,
     <<T_q, T_log_ok, T_a>>}

MaxCallbacks == 3

\* Command lines with a help option among file names, a version flag, a
\* stop switch and an option that takes the next token.
T_h == <<"-","h">>
T_v == <<"-","v">>

HelpLines ==
    {<<T_a, T_h>>, <<T_v, T_h, T_a>>, <<T_v, T_a, T_qmark>>,
     <<T_stop, T_h>>, <<T_stop, T_h, T_a>>, <<T_a, T_stop, T_h>>,
     <<T_out, T_h, T_a>>, <<T_h, T_stop, T_a>>, <<T_v, T_a>>,
     <<T_a, T_hh, T_b>>, <<T_h, T_s, T_a>>}

\* Flags, options with an inline or juxtaposed value and file names,
\* combined freely.
PermTokens == {T_a, T_q, T_zc9, T_zc39, T_f7, T_out_x}

CommandLines ==
    CallbackLines \cup HelpLines \cup SeqsUpTo(PermTokens, MaxArgs)
    \cup SeqsUpTo(CoreTokens, MaxArgs) \cup SeqsUpTo(SlotTokens, MaxArgs)
    \cup {<<t>> : t \in KeyTokens \cup NumTokens}
    \cup {<<t, f>> : <<t, f>> \in KeyTokens \X FollowTokens}

(***************************************************************************)
(* State.                                                                  *)
(*   argv0          the command line as given (argv[1..argc-1]), never     *)
(*                  written                                                *)
(*   argv           the same array as parse_args leaves it, hidden slots   *)
(*                  being Null                                             *)
(*   i              the loop index of parse_args, then of process_files    *)
(*   counted        the indices parse_args counted in file_count           *)
(*   scan           what the last iteration of parse_args made of a token  *)
(*   calls          the calls made to the engine so far                    *)
(*   callbacks      the callbacks that the engine has made so far          *)
(*   exit_kind      "running", or how the process ended: "exit" (exit() or *)
(*                  return from main, with exit_status) or "abort"         *)
(***************************************************************************)
VARIABLES argv0, argv, i, pc, stop_switch, file_count, counted, scan,
          options, local_options, operation, reporter, log_opened, result,
          exit_kind, exit_status, err, err_arg, calls, callbacks, opt_buf

vars == <<argv0, argv, i, pc, stop_switch, file_count, counted, scan,
          options, local_options, operation, reporter, log_opened, result,
          exit_kind, exit_status, err, err_arg, calls, callbacks, opt_buf>>

parse_vars == <<argv, i, stop_switch, file_count, counted, scan, options,
                local_options, opt_buf>>

Init ==
    /\ argv0 \in CommandLines
    /\ argv = argv0
    /\ i = 1
    /\ pc = "parse_args"
    /\ stop_switch = FALSE
    /\ file_count = 0
    /\ counted = <<>>
    /\ scan = NoScan
    /\ opt_buf = FreshOptBuf
    /\ options = InitOptions
    /\ local_options = InitLocalOptions
    /\ operation = "OP_RUN"
    /\ reporter = [start_of_line |-> FALSE, con_file |-> "NULL",
                   log_file |-> "NULL", con_out |-> <<>>, log_out |-> <<>>]
    /\ log_opened = FALSE
    /\ result = EXIT_SUCCESS
    /\ exit_kind = "running"
    /\ exit_status = 0
    /\ err = ""
    /\ err_arg = Null
    /\ calls = <<>>
    /\ callbacks = <<>>

\* error() that prints its diagnostic and returns to its caller.
error_returns(msg, arg) ==
    /\ err' = msg
    /\ err_arg' = arg
    /\ pc' = IF pc = "parse_args" /\ i <= Len(argv) THEN "parse_args"
             ELSE IF pc = "parse_args" THEN "app_init"
             ELSE "main"
    /\ UNCHANGED <<exit_kind, exit_status>>

\* error(): one diagnostic line, then exit(EXIT_FAILURE).
error(msg, arg) ==
    /\ err' = msg
    /\ err_arg' = arg
    /\ pc' = "exited"
    /\ exit_kind' = "exit"
    /\ exit_status' = EXIT_FAILURE

\* panic() that ends like error(), whatever options.debug.
panic_as_error(msg) ==
    /\ err' = msg
    /\ err_arg' = Null
    /\ pc' = "exited"
    /\ exit_kind' = "exit"
    /\ exit_status' = EXIT_FAILURE

\* panic(): abort() under -debug, exit(70) otherwise.
panic(msg) ==
    /\ err' = msg
    /\ err_arg' = Null
    /\ pc' = "exited"
    /\ exit_kind' = IF options.debug THEN "abort" ELSE "exit"
    /\ exit_status' = IF options.debug THEN exit_status ELSE EX_SOFTWARE

NoExit == UNCHANGED <<exit_kind, exit_status, err, err_arg>>

\* parse_args: one iteration of the loop over argv.
ParseArg ==
    /\ pc = "parse_args"
    /\ i <= Len(argv)
    /\ \E n \in {ParseIteration([argv |-> argv, i |-> i,
                                 stop_switch |-> stop_switch,
                                 file_count |-> file_count,
                                 options |-> options,
                                 local_options |-> local_options])} :
           /\ argv' = n.argv
           /\ i' = n.i
           /\ stop_switch' = n.stop_switch
           /\ file_count' = n.file_count
           /\ counted' = IF n.counted THEN Append(counted, i) ELSE counted
           /\ scan' = n.scan
           /\ opt_buf' = OptBufAfter(opt_buf, stop_switch, argv[i])
           /\ options' = n.options
           /\ local_options' = n.local_options
           /\ IF n.err # ""
              THEN error(n.err, argv[i])
              ELSE /\ pc' = "parse_args"
                   /\ NoExit
    /\ UNCHANGED <<argv0, callbacks, operation, reporter, log_opened, result, calls>>

\* parse_args: "Finalize", after the loop.
ParseFinalize ==
    /\ pc = "parse_args"
    /\ i > Len(argv)
    /\ \E f \in {ParseFinalization(options, local_options, file_count)} :
           IF f.err # ""
           THEN /\ error(f.err, Null)
                /\ UNCHANGED operation
           ELSE /\ operation' = f.operation
                /\ pc' = "app_init"
                /\ NoExit
    /\ UNCHANGED <<argv0, callbacks, parse_vars, reporter, log_opened, result, calls>>

\* ConsoleStream that ignores options.quiet.
ConsoleStreamIgnoringQuiet(op, quiet) ==
    IF op \in {"OP_SHOW_HELP", "OP_SHOW_VERSION"} THEN "stdout" ELSE "stderr"

\* The stream that app_init assigns to con_file.
ConsoleStream(op, quiet) ==
    IF op \in {"OP_SHOW_HELP", "OP_SHOW_VERSION"} THEN "stdout"
    ELSE IF ~quiet THEN "stderr"
    ELSE "NULL"

\* app_init: choose the console stream, open the log file (which may fail).
AppInit ==
    /\ pc = "app_init"
    /\ LET r0  == [reporter EXCEPT
                     !.start_of_line = TRUE,
                     !.con_file = ConsoleStream(operation, options.quiet)]
       IN  IF options.log_name = Null
           THEN /\ reporter' = r0
                /\ pc' = "main"
                /\ NoExit
                /\ UNCHANGED log_opened
           ELSE \E opened \in BOOLEAN :
                   IF opened
                   THEN /\ reporter' =
                             app_printf([r0 EXCEPT !.log_file = "open"],
                                        Fmt_warning, <<msg_log_deprecated>>)
                        /\ log_opened' = TRUE
                        /\ pc' = "main"
                        /\ NoExit
                   ELSE /\ reporter' = r0
                        /\ error("Can't open log file", options.log_name)
                        /\ UNCHANGED log_opened
    /\ UNCHANGED <<argv0, callbacks, parse_vars, operation, result, calls>>

\* main, from the return of app_init to the switch on operation: the intro
\* under -v or -version, then the help or version texts, or process_files.
Main ==
    /\ pc = "main"
    /\ LET r1 == IF local_options.version
                 THEN app_printf(reporter, Fmt_s_nl, <<msg_intro>>)
                 ELSE reporter
       IN  CASE operation = "OP_RUN" ->
                  /\ reporter' = r1
                  /\ pc' = "opng_initialize"
             [] operation = "OP_SHOW_HELP" ->
                  /\ reporter' =
                       IF local_options.help
                       THEN app_printf(r1, Fmt_help,
                                <<msg_help_synopsis, msg_help_options,
                                  msg_help_examples>>)
                       ELSE app_printf(r1, Fmt_basic_help,
                                <<msg_help_synopsis, msg_help_basic_options,
                                  msg_help_examples, msg_help_more>>)
                  /\ pc' = "app_finish"
             [] operation = "OP_SHOW_VERSION" ->
                  /\ reporter' =
                       app_printf(app_printf(r1, Fmt_s_nl, <<msg_license>>),
                                  Fmt_using, <<lib_version, lib_version>>)
                  /\ pc' = "app_finish"
    /\ NoExit
    /\ UNCHANGED <<argv0, callbacks, parse_vars, operation, log_opened, result, calls>>

\* What an engine call does as seen by the caller: it returns 0, returns
\* nonzero, or calls ui.panic_fn.
EngineOutcomes == {"ok", "fail", "panic"}

\* process_files: opng_initialize.
Initialize ==
    /\ pc = "opng_initialize"
    /\ \E out \in EngineOutcomes :
          /\ calls' = Append(calls, [fn |-> "initialize", idx |-> 0,
                                    out |-> out])
          /\ IF out = "ok"
             THEN /\ pc' = "process_files"
                  /\ NoExit
             ELSE panic("Can't initialize optimization engine")
    /\ i' = 1
    /\ result' = EXIT_SUCCESS
    /\ UNCHANGED <<argv0, callbacks, opt_buf, argv, stop_switch, file_count, counted, scan,
                   options, local_options, operation, reporter, log_opened>>

\* ProcessFile with opng_finalize called inside the loop, after each file.
ProcessFileFinalizingEach ==
    /\ pc = "process_files"
    /\ i <= Len(argv)
    /\ IF argv[i] = Null \/ argv[i] = <<>>
       THEN UNCHANGED calls
       ELSE calls' = calls \o <<[fn |-> "optimize", idx |-> i, out |-> "ok"],
                                [fn |-> "finalize", idx |-> 0, out |-> "ok"]>>
    /\ i' = i + 1
    /\ pc' = "process_files"
    /\ NoExit
    /\ UNCHANGED <<argv0, callbacks, opt_buf, argv, stop_switch, file_count, counted, scan,
                   options, local_options, operation, reporter, log_opened,
                   result>>

\* process_files: one iteration of "Iterate over file names".
ProcessFile ==
    /\ pc = "process_files"
    /\ i <= Len(argv)
    /\ IF argv[i] = Null \/ argv[i] = <<>>
       THEN /\ i' = i + 1
            /\ pc' = "process_files"
            /\ NoExit
            /\ UNCHANGED <<result, calls>>
       ELSE \E out \in EngineOutcomes :
               /\ calls' = Append(calls, [fn |-> "optimize", idx |-> i,
                                         out |-> out])
               /\ i' = i + 1
               /\ IF out = "panic"
                  THEN /\ panic("engine panic")
                       /\ UNCHANGED result
                  ELSE /\ result' = IF out = "fail" THEN EXIT_FAILURE
                                    ELSE result
                       /\ pc' = "process_files"
                       /\ NoExit
    /\ UNCHANGED <<argv0, callbacks, opt_buf, argv, stop_switch, file_count, counted, scan,
                   options, local_options, operation, reporter, log_opened>>

\* The texts that the engine prints through ui.printf_fn, as [fmt, args],
\* and the codes that it passes to ui.print_cntrl_fn.
EngineTexts ==
    {[fmt |-> <<"a", "b", "c">>, args |-> <<>>],
     [fmt |-> <<"o", "k", "\n">>, args |-> <<>>],
     [fmt |-> <<>>, args |-> <<>>]}

EngineCodes == {CR, VT, -3, -79, 7}

\* The engine is running, between the entry of process_files and the
\* return of opng_finalize, and makes one more callback.
EngineCallsBack ==
    /\ pc \in {"opng_initialize", "process_files"}
    /\ argv0 \in CallbackLines
    /\ Len(callbacks) < MaxCallbacks

\* ui.printf_fn, called by the engine.
EnginePrintf ==
    /\ EngineCallsBack
    /\ \E t \in EngineTexts :
          /\ reporter' = app_printf(reporter, t.fmt, t.args)
          /\ callbacks' = Append(callbacks, [fn |-> "printf", fmt |-> t.fmt,
                                            code |-> 0])
    /\ NoExit
    /\ UNCHANGED <<argv0, parse_vars, pc, operation, log_opened, result,
                   calls>>

\* ui.print_cntrl_fn, called by the engine.
EnginePrintCntrl ==
    /\ EngineCallsBack
    /\ \E c \in EngineCodes :
          /\ reporter' = app_print_cntrl(reporter, c)
          /\ callbacks' = Append(callbacks, [fn |-> "print_cntrl",
                                            fmt |-> <<>>, code |-> c])
    /\ NoExit
    /\ UNCHANGED <<argv0, parse_vars, pc, operation, log_opened, result,
                   calls>>

\* process_files: opng_finalize, and the return to main.
Finalize ==
    /\ pc = "process_files"
    /\ i > Len(argv)
    /\ \E out \in EngineOutcomes :
          /\ calls' = Append(calls, [fn |-> "finalize", idx |-> 0,
                                    out |-> out])
          /\ IF out = "ok"
             THEN /\ pc' = "app_finish"
                  /\ NoExit
             ELSE panic("Can't finalize optimization engine")
    /\ UNCHANGED <<argv0, callbacks, parse_vars, operation, reporter, log_opened,
                   result>>

\* main: app_finish closes the log file; main returns result.
AppFinish ==
    /\ pc = "app_finish"
    /\ reporter' = [reporter EXCEPT !.log_file = "NULL"]
    /\ pc' = "exited"
    /\ exit_kind' = "exit"
    /\ exit_status' = result
    /\ UNCHANGED <<argv0, callbacks, parse_vars, operation, log_opened, result, calls,
                   err, err_arg>>

Next ==
    \/ ParseArg
    \/ ParseFinalize
    \/ AppInit
    \/ Main
    \/ Initialize
    \/ ProcessFile
    \/ EnginePrintf
    \/ EnginePrintCntrl
    \/ Finalize
    \/ AppFinish

Spec == Init /\ [][Next]_vars

(***************************************************************************)
(* Properties.                                                             *)
(***************************************************************************)
\* The diagnostics of option resolution (parse_args and the checks it calls).
UsageErrors ==
    {"No argument allowed", "Unrecognized option", "Missing argument",
     "Invalid argument",
     "Multiple optimization levels are not permitted",
     "Multiple interlace types are not permitted",
     "Multiple window sizes are not permitted",
     "Multiple output file names are not permitted",
     "Multiple output dir names are not permitted",
     "Multiple log file names are not permitted",
     "Manipulation of individual chunks is not implemented",
     "The option -out requires one input file",
     "The options -out and -dir are mutually exclusive",
     "the log file name must end with .log"}

\* The indices of the optimize calls made so far, in call order.
RECURSIVE OptimizedOf(_)
OptimizedOf(cs) ==
    IF cs = <<>> THEN <<>>
    ELSE IF Head(cs).fn = "optimize"
    THEN <<Head(cs).idx>> \o OptimizedOf(Tail(cs))
    ELSE OptimizedOf(Tail(cs))

Optimized == OptimizedOf(calls)

\* The run went through process_files and returned from main.
RunCompleted ==
    /\ pc = "exited"
    /\ calls # <<>>
    /\ calls[Len(calls)] = [fn |-> "finalize", idx |-> 0, out |-> "ok"]

\* C1: a validation failure of option resolution ends the process with exit
\* status 1, and the engine is never called: in every reachable state that
\* follows a usage error the process has exited with status 1 and the list
\* of engine calls is empty.
C1_UsageErrorStopsEverything ==
    err \in UsageErrors =>
        /\ pc = "exited"
        /\ exit_kind = "exit"
        /\ exit_status = EXIT_FAILURE
        /\ calls = <<>>

\* A usage error met after a file name had been counted.
C1_Witness ==
    /\ err = "Unrecognized option"
    /\ file_count > 0
    /\ pc = "exited"
    /\ exit_status = EXIT_FAILURE

\* C2: with the stop switch seen, an iteration of parse_args treats its
\* token as a file name whatever it looks like: it counts it, leaves argv
\* and every configuration field as they are, raises no error and consumes
\* that one token only.
C2_AfterStopSwitchOnlyFiles ==
    [][(pc = "parse_args" /\ stop_switch /\ i <= Len(argv)) =>
          /\ counted' = Append(counted, i)
          /\ file_count' = file_count + 1
          /\ argv' = argv
          /\ argv[i] = argv0[i]
          /\ options' = options
          /\ local_options' = local_options
          /\ stop_switch'
          /\ i' = i + 1
          /\ err' = ""
          /\ pc' = "parse_args"]_vars

\* A token -o3 that follows a stop switch was counted as a file and is
\* going to be optimized.
C2_Witness ==
    /\ pc = "process_files"
    /\ stop_switch
    /\ \E j \in 1..Len(argv) :
          /\ argv0[j] = T_o3
          /\ argv[j] = T_o3
          /\ j \in Range(counted)
          /\ j \in Range(Optimized)
    /\ options.optim_level = -1

\* C3 as claimed: when process_files has returned, optimize has been called
\* exactly once for each token that parse_args counted as a file, in the
\* order of the command line, and for no other token.
C3_OptimizeOncePerCountedFile ==
    RunCompleted => Optimized = counted

\* C4 as claimed: a failed optimize stops nothing (every later counted file
\* is optimized and finalize is called), and the exit status of a run
\* without panic is 1 iff some optimize call failed, 0 otherwise.
C4_PartialFailure ==
    /\ \A k \in 1..Len(calls) :
          (calls[k].fn = "optimize" /\ calls[k].out = "fail"
           /\ pc \in {"app_finish", "exited"} /\ err = "") =>
             /\ \A j \in Range(counted) :
                   j > calls[k].idx => j \in Range(Optimized)
             /\ calls[Len(calls)].fn = "finalize"
    /\ RunCompleted =>
          /\ exit_kind = "exit"
          /\ exit_status =
               IF \E k \in 1..Len(calls) :
                     calls[k].fn = "optimize" /\ calls[k].out = "fail"
               THEN EXIT_FAILURE ELSE EXIT_SUCCESS

\* C5: initialize is the first engine call and only the first; finalize is
\* called at most once and nothing follows it; a run that went through
\* process_files without panic ends with both made.
C5_EngineCallOrder ==
    /\ \A k \in 1..Len(calls) :
          /\ calls[k].fn = "initialize" <=> k = 1
          /\ calls[k].fn = "finalize" => k = Len(calls)
          /\ (k > 1 /\ k < Len(calls)) => calls[k].fn = "optimize"
    /\ (pc = "exited" /\ calls # <<>> /\ err = "") =>
          /\ Len(calls) >= 2
          /\ calls[1].fn = "initialize"
          /\ calls[Len(calls)].fn = "finalize"

\* A completed run with two optimize calls between initialize and finalize.
C5_Witness ==
    /\ RunCompleted
    /\ Len(calls) = 4
    /\ calls[2].fn = "optimize"
    /\ calls[3].fn = "optimize"

\* The option table as the claim C6 gives it: name, minimum length of an
\* abbreviation (0: exact match only), and the binding the entry selects.
Entry(n, m, b) == [name |-> n, min |-> m, bind |-> b]

OptionTable ==
    {Entry(S_help, 1, "help"), Entry(S_backup, 1, "backup"),
     Entry(S_keep, 1, "backup"), Entry(S_clobber, 1, "clobber"),
     Entry(S_preserve, 1, "preserve"), Entry(S_quiet, 1, "quiet"),
     Entry(S_dir, 1, "dir"), Entry(S_log, 1, "log"),
     Entry(S_fix, 2, "fix"), Entry(S_force, 2, "force"),
     Entry(S_full, 2, "full"), Entry(S_snip, 2, "snip"),
     Entry(S_strip, 2, "strip"), Entry(S_out, 2, "out"),
     Entry(S_silent, 3, "quiet"), Entry(S_simulate, 3, "simulate"),
     Entry(S_verbose, 4, "verbose"), Entry(S_version, 4, "version"),
     Entry(S_debug, 0, "debug"), Entry(S_nb, 0, "nb"), Entry(S_nc, 0, "nc"),
     Entry(S_np, 0, "np"), Entry(S_nx, 0, "nx"), Entry(S_nz, 0, "nz"),
     Entry(S_v, 0, "v"), Entry(S_qmark, 0, "help"), Entry(S_o, 0, "o"),
     Entry(S_i, 0, "i"), Entry(S_f, 0, "f"), Entry(S_zc, 0, "zc"),
     Entry(S_zm, 0, "zm"), Entry(S_zs, 0, "zs"), Entry(S_zw, 0, "zw")}

IsPrefix(key, name) ==
    Len(key) <= Len(name) /\ SubSeq(name, 1, Len(key)) = key

KeyMatches(key, e) ==
    IF e.min = 0 THEN key = e.name
    ELSE IsPrefix(key, e.name) /\ Len(key) >= e.min

\* The bindings of the entries that the key of the last scanned option
\* matches.
MatchedBindings == {e.bind : e \in {x \in OptionTable : KeyMatches(scan.opt, x)}}

\* parse_args has just resolved an option token other than the stop switch.
OptionScanned == scan.idx > 0 /\ scan.tag # "--"

\* C6: the entry that parse_args selects for a key is the one the key
\* matches by the table's rule (prefix of the name, of at least the minimum
\* length, or the exact name); a key that matches no entry is the fatal
\* error "Unrecognized option", naming the token; -h is help, -s is
\* rejected, -sil is quiet and -sim is simulate.
C6_TableMatching ==
    OptionScanned =>
        /\ MatchedBindings = IF scan.tag = "" THEN {} ELSE {scan.tag}
        /\ scan.tag = "" =>
              /\ err = "Unrecognized option"
              /\ err_arg = argv0[scan.idx]
              /\ pc = "exited"
              /\ exit_status = EXIT_FAILURE
        /\ scan.tag # "" => err # "Unrecognized option"
        /\ argv0[scan.idx] = <<"-", "h">> => scan.tag = "help"
        /\ argv0[scan.idx] = T_s => scan.tag = ""
        /\ argv0[scan.idx] = <<"-", "s", "i", "l">> => scan.tag = "quiet"
        /\ argv0[scan.idx] = <<"-", "s", "i", "m">> => scan.tag = "simulate"

\* The abbreviation -sil has set the quiet flag.
C6_Witness ==
    /\ OptionScanned
    /\ argv0[scan.idx] = <<"-", "s", "i", "l">>
    /\ options.quiet
    /\ ~options.simulate
    /\ err = ""

\* The single-slot numeric option that an iteration of parse_args has just
\* resolved with a valid value: [field, unset, cur, new, val, conflict].
SlotOf(tag) ==
    CASE tag = "o" ->
           [unset |-> -1, cur |-> options.optim_level,
            new |-> options'.optim_level,
            chk |-> check_num_option(scan'.xopt, 0, INT_MAX),
            conflict |-> "Multiple optimization levels are not permitted"]
      [] tag = "i" ->
           [unset |-> -1, cur |-> options.interlace,
            new |-> options'.interlace,
            chk |-> check_num_option(scan'.xopt, 0, 1),
            conflict |-> "Multiple interlace types are not permitted"]
      [] tag = "zw" ->
           [unset |-> 0, cur |-> options.window_bits,
            new |-> options'.window_bits,
            chk |-> check_power2_option(scan'.xopt, 8, 15),
            conflict |-> "Multiple window sizes are not permitted"]

SlotRule(sl) ==
    sl.chk.err = "" =>
        /\ sl.cur = sl.unset => (sl.new = sl.chk.val /\ err' = "")
        /\ sl.cur = sl.chk.val => (sl.new = sl.cur /\ err' = "")
        /\ sl.cur \notin {sl.unset, sl.chk.val} =>
              /\ err' = sl.conflict
              /\ pc' = "exited"
              /\ exit_status' = EXIT_FAILURE

\* The command line is tokens..., each an occurrence of -o with a value.
ResolvedLine(tokens) ==
    argv0 = tokens /\ (pc # "parse_args" \/ i > Len(argv))

\* The value that each occurrence of a single-slot option in SlotTokens
\* gives, and the value of the first occurrence among `tokens` on the
\* command line (`unset` when there is none).
ValueOfToken(t) ==
    CASE t = T_o2 -> 2
      [] t = T_o3 -> 3
      [] t = T_o_eq2 -> 2
      [] t = T_i0 -> 0
      [] t = T_i1 -> 1
      [] t = T_zw256 -> 8
      [] t = T_zw_eq -> 8
      [] t = T_zw32k -> 15

FirstValue(tokens, unset) ==
    IF \E k \in 1..Len(argv0) : argv0[k] \in tokens
    THEN ValueOfToken(argv0[CHOOSE k \in 1..Len(argv0) :
                               /\ argv0[k] \in tokens
                               /\ \A j \in 1..(k - 1) : argv0[j] \notin tokens])
    ELSE unset

\* C7: an occurrence of -o, -i or -zw with a valid value sets the field
\* when it is unset, leaves it alone when it holds that value, and is fatal
\* when it holds another value; so -o2 -o3 is fatal, -o2 -o2 gives level 2,
\* and a resolution that succeeds leaves in the field the value of the
\* first occurrence.
C7_SingleSlot ==
    /\ [][(pc = "parse_args" /\ scan'.idx = i
           /\ scan'.tag \in {"o", "i", "zw"}) => SlotRule(SlotOf(scan'.tag))]_vars
    /\ [](ResolvedLine(<<T_o2, T_o3>>) =>
            /\ err = "Multiple optimization levels are not permitted"
            /\ exit_status = EXIT_FAILURE)
    /\ [](ResolvedLine(<<T_o2, T_o2>>) =>
            /\ err \notin UsageErrors
            /\ options.optim_level = 2)
    /\ []((pc # "parse_args" /\ err \notin UsageErrors
           /\ Range(argv0) \subseteq SlotTokens) =>
            /\ options.optim_level = FirstValue({T_o2, T_o3, T_o_eq2}, -1)
            /\ options.interlace = FirstValue({T_i0, T_i1}, -1)
            /\ options.window_bits =
                 FirstValue({T_zw256, T_zw32k, T_zw_eq}, 0))

\* -zw256 -zw=256 -zw32k: the second occurrence was accepted, the third
\* is fatal.
C7_Witness ==
    /\ argv0 = <<T_zw256, T_zw_eq, T_zw32k>>
    /\ err = "Multiple window sizes are not permitted"
    /\ options.window_bits = 8
    /\ pc = "exited"

\* Resolution has completed without a fatal error.
Resolved == pc \notin {"parse_args"} /\ err \notin UsageErrors

\* C8 as claimed: after a resolution that succeeds with -out set there is
\* exactly one residual file name, and -dir is unset.
C8_OutExactlyOneFile ==
    (Resolved /\ options.out_name # Null) =>
        (file_count = 1 /\ options.dir_name = Null)

\* C8 as amended: after a resolution that succeeds with -out set there is
\* at most one residual file name (none when the command line names no
\* file, and then no file is processed), and -dir is unset.
C8_OutAtMostOneFile ==
    (Resolved /\ options.out_name # Null) =>
        /\ file_count <= 1
        /\ options.dir_name = Null
        /\ file_count = 0 => operation # "OP_RUN"

\* -out with its one file, resolved and about to run.
C8_Witness ==
    /\ Resolved
    /\ options.out_name # Null
    /\ file_count = 1
    /\ operation = "OP_RUN"
    /\ pc = "opng_initialize"

MutuallyExclusive == "The options -out and -dir are mutually exclusive"

\* C9: once -out and -dir both have their value, the process never gets
\* past parse_args: it is still resolving, or it has ended with exit status
\* 1 and no engine call, whatever the order of the two options and the
\* other tokens; and the diagnostic of the mutual exclusion is raised only
\* after all the tokens have been consumed.
C9_OutAndDirExclusive ==
    /\ (options.out_name # Null /\ options.dir_name # Null) =>
          /\ pc \in {"parse_args", "exited"}
          /\ pc = "exited" =>
                /\ err \in UsageErrors
                /\ exit_kind = "exit"
                /\ exit_status = EXIT_FAILURE
                /\ calls = <<>>
    /\ err = MutuallyExclusive =>
          /\ i > Len(argv)
          /\ options.out_name # Null
          /\ options.dir_name # Null

\* -dir=y a -out=x: -dir first, a file between; fatal after the last token.
C9_Witness ==
    /\ argv0 = <<T_dir_y, T_a, T_out_x>>
    /\ err = MutuallyExclusive
    /\ pc = "exited"
    /\ i = 4

\* The last four characters of name are ".log", whatever their case.
EndsWithDotLog(name) ==
    /\ Len(name) >= 4
    /\ LowerStr(SubSeq(name, Len(name) - 3, Len(name))) = S_dotlog

LogNameError == "the log file name must end with .log"

\* C10: a log file name passes the check of parse_args iff its last four
\* characters are ".log" in any case; with any other name the process ends
\* with exit status 1 and the log file is never opened.
C10_LogSuffix ==
    /\ (options.log_name # Null /\ pc # "parse_args") =>
          IF EndsWithDotLog(options.log_name)
          THEN err # LogNameError
          ELSE /\ pc = "exited"
               /\ err \in UsageErrors
               /\ exit_status = EXIT_FAILURE
               /\ ~log_opened
               /\ reporter.log_file = "NULL"
    /\ err = LogNameError => ~EndsWithDotLog(options.log_name)
    /\ (options.log_name # Null /\ pc # "parse_args"
        /\ options.out_name = Null) =>
          (err = LogNameError <=> ~EndsWithDotLog(options.log_name))
    /\ log_opened => EndsWithDotLog(options.log_name)

\* The name N.LOG was accepted and the log file is open.
C10_Witness ==
    /\ options.log_name = <<"N", ".", "L", "O", "G">>
    /\ log_opened
    /\ reporter.log_file = "open"

(***************************************************************************)
(* Inline values and consumed tokens.                                      *)
(***************************************************************************)
NoArgumentAllowed == "No argument allowed"

\* The last iteration of parse_args resolved a flag (a simple option).
FlagScanned == scan.idx > 0 /\ scan.simple

\* Flag tokens written with an inline value: -q=1, -q=, -h x, --Vers=1, and
\* the stop switch written the same way, --=x and "-- x".
InlineFlagTokens == {T_q_eq, T_q_eqe, T_h_sp, T_v_eq}

InlineStopTokens == {T_stop_eq, T_stop_sp}

\* The process ended in the usage error msg about the token at idx.
FatalAt(msg, idx) ==
    /\ err = msg
    /\ err_arg = argv0[idx]
    /\ pc = "exited"
    /\ exit_kind = "exit"
    /\ exit_status = EXIT_FAILURE
    /\ calls = <<>>

\* C11 as claimed: every flag token written with an inline value, the stop
\* switch included, ends the process with "No argument allowed".
C11_InlineValueOnAnyFlag ==
    \A k \in 1..Len(argv0) :
        (scan.idx = k /\ argv0[k] \in InlineFlagTokens \cup InlineStopTokens)
        => FatalAt(NoArgumentAllowed, k)

\* C11 as amended: a token that resolves to a flag (a boolean flag, help,
\* version) and carries an inline value is the fatal error "No argument
\* allowed" naming the token; a token that resolves to a flag or to the stop
\* switch without an inline value sets no error and leaves the following
\* token in place; a dashes-only token never carries an inline value, and
\* --=x or "-- x" is the fatal error "Unrecognized option".
C11_FlagNoArgument ==
    /\ FlagScanned =>
          IF scan.xopt # Null
          THEN /\ FatalAt(NoArgumentAllowed, scan.idx)
               /\ scan.tag # "--"
          ELSE /\ scan.consumed = 0
               /\ err # NoArgumentAllowed
               /\ pc = "parse_args" =>
                     /\ i = scan.idx + 1
                     /\ err = ""
                     /\ \A k \in i..Len(argv) : argv[k] = argv0[k]
    /\ \A k \in 1..Len(argv0) :
          (scan.idx = k /\ argv0[k] \in InlineFlagTokens) =>
              (scan.simple /\ FatalAt(NoArgumentAllowed, k))
    /\ \A k \in 1..Len(argv0) :
          (scan.idx = k /\ argv0[k] \in InlineStopTokens) =>
              (~scan.simple /\ FatalAt("Unrecognized option", k))
    /\ err = NoArgumentAllowed => (FlagScanned /\ scan.xopt # Null)

\* -q= a: the empty inline value is fatal after the flag was set, and the
\* following token was neither hidden nor counted.
C11_Witness ==
    /\ argv0 = <<T_q_eqe, T_a>>
    /\ FlagScanned
    /\ scan.xopt = <<>>
    /\ options.quiet
    /\ FatalAt(NoArgumentAllowed, 1)
    /\ argv[2] = T_a
    /\ file_count = 0

\* The inline value of an option token, Null when it has none: what
\* follows '=', the text after white space, or the juxtaposed digits.
InlineValue(t) ==
    NormalizeJuxtaposed(t, scan_option(t).opt, scan_option(t).xopt).xopt

\* What the step that resolves the value-kind option argv[i] does, given
\* the inline value inl of the token.
ValueArgumentRule(inl) ==
    IF inl # Null
    THEN /\ scan'.xopt = inl
         /\ scan'.consumed = 0
         /\ argv' = [argv EXCEPT ![i] = Null]
         /\ counted' = counted /\ file_count' = file_count
         /\ err' = "" => i' = i + 1
    ELSE IF i < Len(argv)
    THEN /\ scan'.xopt = argv[i + 1]
         /\ scan'.consumed = i + 1
         /\ argv' = [argv EXCEPT ![i] = Null, ![i + 1] = Null]
         /\ counted' = counted /\ file_count' = file_count
         /\ err' = "" => i' = i + 2
    ELSE /\ scan'.xopt = <<>>
         /\ err' \in UsageErrors
         /\ pc' = "exited"
         /\ exit_kind' = "exit"
         /\ exit_status' = EXIT_FAILURE

\* C12: the step of parse_args that resolves a value-kind option uses the
\* inline value and touches no other token, or else takes the next token
\* whole as the value and hides it, or else (last token) takes the empty
\* string and ends in a usage error; a hidden token stays hidden, is never
\* counted as a file and never passed to optimize; -out=x a keeps a as the
\* file, -out -o3 a takes -o3 as the name.
C12_ValueOptionArgument ==
    /\ [][(pc = "parse_args" /\ scan'.idx = i /\ ~scan'.simple
           /\ scan'.tag # "") => ValueArgumentRule(InlineValue(argv[i]))]_vars
    /\ [][\A k \in 1..Len(argv) : argv[k] = Null => argv'[k] = Null]_vars
    /\ [](\A k \in 1..Len(argv) :
            argv[k] = Null =>
                /\ \A j \in 1..Len(counted) : counted[j] # k
                /\ \A j \in 1..Len(Optimized) : Optimized[j] # k)
    /\ [](ResolvedLine(<<T_out_x, T_a>>) =>
            (options.out_name = <<"x">> /\ counted = <<2>>))
    /\ [](ResolvedLine(<<T_out, T_o3, T_a>>) =>
            /\ options.out_name = T_o3
            /\ options.optim_level = -1
            /\ counted = <<3>>)
    /\ [](\A t \in PrefixTokens \cup {T_o, T_out, T_zs, T_l, T_d, T_ou} :
            (ResolvedLine(<<t>>) /\ ~scan.simple) =>
                (err \in UsageErrors /\ exit_status = EXIT_FAILURE))

\* -out -o3 a has run: -o3 was the output name, never an option nor a file,
\* and only a was optimized.
C12_Witness ==
    /\ argv0 = <<T_out, T_o3, T_a>>
    /\ options.out_name = T_o3
    /\ options.optim_level = -1
    /\ argv[2] = Null
    /\ counted = <<3>>
    /\ Optimized = <<3>>
    /\ RunCompleted

(***************************************************************************)
(* Juxtaposed values.                                                      *)
(***************************************************************************)
JuxtaKeys == {S_f, S_i, S_o, S_zc, S_zm, S_zs, S_zw}

\* The token is -Kv: dashes, one of the keys f, i, o, zc, zm, zs, zw in
\* either case, and a value v that starts with a digit.
IsJuxtaposed(t) ==
    /\ At(t, 1) = "-"
    /\ opng_strpbrk_digit(t) > 2
    /\ LowerStr(SubSeq(t, SkipDash(t, 2), opng_strpbrk_digit(t) - 1))
          \in JuxtaKeys

\* -K and v of the token -Kv, and the token -K=v.
KeyPart(t) == SubSeq(t, 1, opng_strpbrk_digit(t) - 1)

ValuePart(t) == From(t, opng_strpbrk_digit(t))

EqForm(t) == KeyPart(t) \o <<"=">> \o ValuePart(t)

\* The command line with every -Kv written -K=v, and written -K v.
RECURSIVE EqLine(_)
EqLine(tokens) ==
    IF tokens = <<>> THEN <<>>
    ELSE <<IF IsJuxtaposed(Head(tokens)) THEN EqForm(Head(tokens))
           ELSE Head(tokens)>> \o EqLine(Tail(tokens))

RECURSIVE TwoLine(_)
TwoLine(tokens) ==
    IF tokens = <<>> THEN <<>>
    ELSE (IF IsJuxtaposed(Head(tokens))
          THEN <<KeyPart(Head(tokens)), ValuePart(Head(tokens))>>
          ELSE <<Head(tokens)>>) \o TwoLine(Tail(tokens))

\* The outcome of the resolution that has just ended, as Resolve gives it.
Outcome ==
    IF err \in UsageErrors THEN FatalOutcome
    ELSE [fatal |-> FALSE, options |-> options,
          local_options |-> local_options, operation |-> operation,
          files |-> [j \in 1..Len(counted) |-> argv0[counted[j]]]]

\* parse_args as it is before the iteration on argv[i], on the command
\* line `line`.
ParseStateOn(line) ==
    [argv |-> line, i |-> i, stop_switch |-> stop_switch,
     file_count |-> file_count, options |-> options,
     local_options |-> local_options]

\* The step taken agrees with the iteration n made on another form of the
\* token, which shifts the rest of the command line by `shift` places.
SameIteration(n, shift) ==
    /\ (err' # "") = (n.err # "")
    /\ err' = "" =>
          /\ options' = n.options
          /\ local_options' = n.local_options
          /\ stop_switch' = n.stop_switch
          /\ file_count' = n.file_count
          /\ n.i = i' + shift
          /\ \A k \in i'..Len(argv) : n.argv[k + shift] = argv'[k]
    /\ err' # "" => err' = n.err

\* Every token of the command line is a juxtaposed option, an option with
\* an inline value, or a file name: each -Kv is resolved as an option.
PlainLine ==
    \A k \in 1..Len(argv0) :
        \/ IsJuxtaposed(argv0[k])
        \/ argv0[k] \in SlotTokens \cup {T_a, T_one, T_nlog, T_all}

\* C13: the step of parse_args that resolves a juxtaposed token -Kv (K one
\* of f, i, o, zc, zm, zs, zw and v starting with a digit) leaves the state
\* that the same step leaves on -K=v and on the two tokens -K v; and the
\* outcome of the resolution of a command line (configuration, residual
\* file names, or a fatal error) is the outcome of the line with every -Kv
\* written -K=v, and of the line with every -Kv written -K v.
C13_JuxtaposedForms ==
    /\ [][(pc = "parse_args" /\ scan'.idx = i /\ IsJuxtaposed(argv[i])) =>
            /\ SameIteration(ParseIteration(ParseStateOn(
                   [argv EXCEPT ![i] = EqForm(argv[i])])), 0)
            /\ SameIteration(ParseIteration(ParseStateOn(
                   SubSeq(argv, 1, i - 1)
                   \o <<KeyPart(argv[i]), ValuePart(argv[i])>>
                   \o SubSeq(argv, i + 1, Len(argv)))), 1)]_vars
    /\ []((PlainLine /\ pc \notin {"parse_args", "exited"}) =>
            /\ Outcome = Resolve(EqLine(argv0))
            /\ Outcome = Resolve(TwoLine(argv0)))
    /\ []((PlainLine /\ pc = "exited" /\ err \in UsageErrors) =>
            /\ Resolve(EqLine(argv0)).fatal
            /\ Resolve(TwoLine(argv0)).fatal)

\* -ZM9 a: the juxtaposed value 9 of the upper-case key was resolved, and
\* a is the residual file name, as with -ZM=9 a and -ZM 9 a.
C13_Witness ==
    /\ argv0 = <<T_ZM9, T_a>>
    /\ pc = "app_init"
    /\ options.mem_level_set = {9}
    /\ counted = <<2>>
    /\ Resolve(<<KeyPart(T_ZM9) \o <<"=">> \o <<"9">>, T_a>>) = Outcome
    /\ Resolve(<<<<"-", "Z", "M">>, <<"9">>, T_a>>) = Outcome

(***************************************************************************)
(* Rangeset options.                                                       *)
(***************************************************************************)
RangesetTags == {"f", "zc", "zm", "zs"}

\* The validity mask of a rangeset option and the field it is added to.
MaskOf(tag) ==
    CASE tag = "f" -> OPNG_FILTER_SET_MASK
      [] tag = "zc" -> OPNG_COMPR_LEVEL_SET_MASK
      [] tag = "zm" -> OPNG_MEM_LEVEL_SET_MASK
      [] tag = "zs" -> OPNG_STRATEGY_SET_MASK

FieldOf(o, tag) ==
    CASE tag = "f" -> o.filter_set
      [] tag = "zc" -> o.compr_level_set
      [] tag = "zm" -> o.mem_level_set
      [] tag = "zs" -> o.strategy_set

\* The last iteration of parse_args validated the value of a rangeset
\* option, and the set that its text denotes ([rc, set], rc # 0: malformed).
RangesetScanned == scan.idx > 0 /\ scan.tag \in RangesetTags

ParsedSet == RangesetItems(scan.xopt, 1, {})

RangesetAccepted == err \notin {"Missing argument", "Invalid argument"}

RECURSIVE StripZeros(_)
StripZeros(n) ==
    IF Len(n) > 1 /\ n[1] = "0" THEN StripZeros(Tail(n)) ELSE n

RECURSIVE NumeralValue(_, _)
NumeralValue(n, acc) ==
    IF n = <<>> THEN acc
    ELSE NumeralValue(Tail(n), acc * 10 + DigitVal(n[1]))

\* The largest n such that n * 2^sh is at most 2^32 - 1.
LargestFactor(sh) ==
    CASE sh = 10 -> 4194303
      [] sh = 20 -> 4095
      [] sh = 30 -> 3

\* n * 2^sh does not exceed the largest unsigned long.
ProductFits(n, sh) ==
    /\ Len(StripZeros(n)) <= 7
    /\ NumeralValue(StripZeros(n), 0) <= LargestFactor(sh)

\* m * 2^sh as an unsigned long, for m <= LargestFactor(sh).
ProductOf(m, sh) ==
    CASE sh = 10 -> UL(m \div 64, (m % 64) * 1024)
      [] sh = 20 -> UL(m * 16, 0)
      [] sh = 30 -> UL(m * 16384, 0)

ExpectedProduct(n, sh) ==
    IF ProductFits(n, sh)
    THEN ProductOf(NumeralValue(StripZeros(n), 0), sh)
    ELSE ULONG_MAX

ShiftOfSuffix(x) ==
    CASE x \in {<<"k">>, <<"K">>} -> 10
      [] x = <<"M">> -> 20
      [] x = <<"G">> -> 30

\* The last iteration of parse_args converted the text xopt for -zw.
Converted(xopt) == scan.idx > 0 /\ scan.tag = "zw" /\ scan.xopt = xopt

\* C15: in the multiplier-aware mode (the value of -zw), a decimal number n
\* followed by k or K, M, G converts to n * 2^10, n * 2^20, n * 2^30 when
\* the product fits an unsigned long and to ULONG_MAX, never a wrapped
\* value, when it does not; "2k" is 2048.  So -zw2k is 2^11 and
\* -zw4194305k, which would wrap to 1024, is rejected.
C15_MultiplierSaturates ==
    /\ \A n \in NumStrs : \A x \in {<<"k">>, <<"K">>, <<"M">>, <<"G">>} :
          Converted(n \o x) =>
              scan.num = [rc |-> 0,
                          val |-> ExpectedProduct(n, ShiftOfSuffix(x))]
    /\ Converted(<<"2", "k">>) =>
          (scan.num.val = UL(0, 2048) /\ options.window_bits = 11)
    /\ Converted(<<"3", "G">>) => scan.num.val = UL(49152, 0)
    /\ Converted(<<"4", "G">>) =>
          (scan.num.val = ULONG_MAX /\ err = "Invalid argument")
    /\ Converted(<<"4","1","9","4","3","0","5","k">>) =>
          (scan.num.val = ULONG_MAX /\ err = "Invalid argument"
           /\ options.window_bits = 0)

\* -zw4194304k: the product 2^32 does not fit, and the value is ULONG_MAX.
C15_Witness ==
    /\ argv0 = <<<<"-","z","w","4","1","9","4","3","0","4","k">>>>
    /\ Converted(<<"4","1","9","4","3","0","4","k">>)
    /\ ~ProductFits(<<"4","1","9","4","3","0","4">>, 10)
    /\ scan.num = [rc |-> 0, val |-> ULONG_MAX]
    /\ err = "Invalid argument"

(***************************************************************************)
(* Panic.                                                                  *)
(***************************************************************************)
PanicMessages ==
    {"Can't initialize optimization engine", "engine panic",
     "Can't finalize optimization engine"}

\* The engine call c ended in panic(): the engine called ui.panic_fn, or
\* opng_initialize or opng_finalize returned nonzero.
Panicked(c) ==
    \/ c.out = "panic"
    \/ c.fn \in {"initialize", "finalize"} /\ c.out = "fail"

\* C16: when panic() has run, after a call of the engine that called it or
\* after opng_initialize or opng_finalize returned failure, the process has
\* ended, by abort() if -debug was given and else with exit status 70,
\* which is not the status 1 of a usage error; and the call that panicked
\* is the last call made to the engine.
C16_PanicTerminates ==
    /\ (\E k \in 1..Len(calls) : Panicked(calls[k])) <=> err \in PanicMessages
    /\ \A k \in 1..Len(calls) : Panicked(calls[k]) => k = Len(calls)
    /\ err \in PanicMessages =>
          /\ pc = "exited"
          /\ options.debug => exit_kind = "abort"
          /\ ~options.debug =>
                /\ exit_kind = "exit"
                /\ exit_status = EX_SOFTWARE
                /\ exit_status # EXIT_FAILURE
    /\ exit_kind = "abort" => (options.debug /\ err \in PanicMessages)
    /\ (exit_kind = "exit" /\ exit_status = EX_SOFTWARE) =>
          err \in PanicMessages

\* -debug a: the engine panicked while optimizing a, and the process was
\* aborted before opng_finalize.
C16_Witness ==
    /\ argv0 = <<S_dash \o S_debug, T_a>>
    /\ options.debug
    /\ calls = <<[fn |-> "initialize", idx |-> 0, out |-> "ok"],
                 [fn |-> "optimize", idx |-> 2, out |-> "panic"]>>
    /\ err = "engine panic"
    /\ exit_kind = "abort"
    /\ pc = "exited"

(***************************************************************************)
(* Control codes.                                                          *)
(***************************************************************************)
\* The step is a call of app_print_cntrl(code) by the engine.
PrintCntrlStep(code) ==
    /\ Len(callbacks') = Len(callbacks) + 1
    /\ callbacks'[Len(callbacks')] =
          [fn |-> "print_cntrl", fmt |-> <<>>, code |-> code]

\* What the step wrote to the console and to the log file.
Written(before, after) ==
    IF Len(after) <= Len(before) THEN <<>>
    ELSE SubSeq(after, Len(before) + 1, Len(after))

ConWritten == Written(reporter.con_out, reporter'.con_out)

LogWritten == Written(reporter.log_out, reporter'.log_out)

\* The first callbacks of the run were cs, in this order.
CalledBack(cs) ==
    Len(callbacks) >= Len(cs) /\ SubSeq(callbacks, 1, Len(cs)) = cs

CbText(fmt) == [fn |-> "printf", fmt |-> fmt, code |-> 0]

CbCode(c) == [fn |-> "print_cntrl", fmt |-> <<>>, code |-> c]

\* C17: a call of app_print_cntrl('\v') in the middle of a line writes
\* exactly one new line to each stream that is open and sets
\* start_of_line; at the start of a line it writes nothing and changes
\* nothing.  So after the text abc one call writes one new line, and two
\* or more calls in a row write one new line in all.
C17_ConditionalNewline ==
    /\ [][PrintCntrlStep(VT) =>
            IF ~reporter.start_of_line
            THEN /\ ConWritten = IF reporter.con_file # "NULL"
                                 THEN <<"\n">> ELSE <<>>
                 /\ LogWritten = IF reporter.log_file # "NULL"
                                 THEN <<"\n">> ELSE <<>>
                 /\ reporter'.start_of_line
                 /\ reporter'.con_file = reporter.con_file
                 /\ reporter'.log_file = reporter.log_file
            ELSE reporter' = reporter]_vars
    /\ [](\A n \in 1..(MaxCallbacks - 1) :
            (argv0 = <<T_a>>
             /\ callbacks = <<CbText(<<"a", "b", "c">>)>>
                            \o [k \in 1..n |-> CbCode(VT)])
            => reporter.con_out = <<"a", "b", "c", "\n">>)

\* a: the engine printed abc and asked twice for a conditional new line;
\* the console holds abc and one new line.
C17_Witness ==
    /\ argv0 = <<T_a>>
    /\ callbacks = <<CbText(<<"a", "b", "c">>), CbCode(VT), CbCode(VT)>>
    /\ reporter.con_out = <<"a", "b", "c", "\n">>
    /\ reporter.start_of_line

\* C18 as claimed: a call of app_print_cntrl(-N), 1 <= N < 80, in the
\* middle of a line writes nothing to the console, nothing to the log file
\* and leaves start_of_line as it is.
C18_EraseMidLineNoOp ==
    [][\A n \in 1..(EraseLimit - 1) :
          (PrintCntrlStep(-n) /\ ~reporter.start_of_line) =>
              /\ ConWritten = <<>>
              /\ LogWritten = <<>>
              /\ reporter'.start_of_line = reporter.start_of_line]_vars

(***************************************************************************)
(* The console under -quiet, and the line state after a text.              *)
(***************************************************************************)
\* C19 as claimed: with options.quiet set nothing is ever written to the
\* console, whatever the operation.
C19_QuietNoConsole ==
    options.quiet => (reporter.con_file = "NULL" /\ reporter.con_out = <<>>)

\* C19 as amended: when options.quiet is set and the operation is OP_RUN,
\* con_file is NULL from app_init on and neither app_printf nor
\* app_print_cntrl writes anything to the console; when the operation is
\* OP_SHOW_HELP or OP_SHOW_VERSION, con_file is stdout whatever
\* options.quiet, and the help or version text is written to it.
C19_QuietRunNoConsole ==
    /\ (options.quiet /\ pc \notin {"parse_args", "app_init"}
        /\ operation = "OP_RUN") =>
          (reporter.con_file = "NULL" /\ reporter.con_out = <<>>)
    /\ (pc \notin {"parse_args", "app_init"}
        /\ operation \in {"OP_SHOW_HELP", "OP_SHOW_VERSION"}) =>
          reporter.con_file = "stdout"
    /\ (pc = "exited" /\ err = ""
        /\ operation \in {"OP_SHOW_HELP", "OP_SHOW_VERSION"}) =>
          reporter.con_out # <<>>
    /\ reporter.con_file = "NULL" => reporter.con_out = <<>>

\* -q -log=n.log a: the engine has printed abc, a conditional new line and
\* a reset; the log file holds them and the console holds nothing.
C19_Witness ==
    /\ argv0 = <<T_q, T_log_ok, T_a>>
    /\ options.quiet
    /\ operation = "OP_RUN"
    /\ callbacks = <<CbText(<<"a", "b", "c">>), CbCode(VT), CbCode(CR)>>
    /\ reporter.con_file = "NULL"
    /\ reporter.con_out = <<>>
    /\ Len(reporter.log_out) >= 5
    /\ SubSeq(reporter.log_out, Len(reporter.log_out) - 4,
              Len(reporter.log_out)) = <<"a", "b", "c", "\n", "\n">>

\* The step is a call, or calls, of app_printf and not of app_print_cntrl,
\* and has written the non-empty text w to a stream.
PrintfStepWrote(w) ==
    /\ w # <<>>
    /\ reporter' # reporter
    /\ \A c \in EngineCodes : ~PrintCntrlStep(c)

\* C20 as claimed: after every call of app_printf that writes a non-empty
\* text, start_of_line holds if and only if the text written ends in a new
\* line; the help, version and log warning texts included.
C20_LineStateFollowsText ==
    [][/\ PrintfStepWrote(ConWritten) =>
            (reporter'.start_of_line <=>
                ConWritten[Len(ConWritten)] = "\n")
       /\ PrintfStepWrote(LogWritten) =>
            (reporter'.start_of_line <=>
                LogWritten[Len(LogWritten)] = "\n")]_vars

(***************************************************************************)
(* "Minus N" at the start of a line.                                       *)
(***************************************************************************)
\* C21: a call of app_print_cntrl(-N), 1 <= N < 80, at the start of a line
\* writes exactly N spaces and then one carriage return to the console when
\* con_file is open, writes nothing to the log file, and leaves
\* start_of_line set.
C21_EraseAtStartOfLine ==
    [][\A n \in 1..(EraseLimit - 1) :
          (PrintCntrlStep(-n) /\ reporter.start_of_line) =>
              /\ ConWritten = IF reporter.con_file # "NULL"
                              THEN [k \in 1..(n + 1) |->
                                      IF k <= n THEN " " ELSE "\r"]
                              ELSE <<>>
              /\ LogWritten = <<>>
              /\ reporter'.start_of_line]_vars

\* -log=n.log a: the engine printed ok and a new line, then asked to erase
\* 79 characters; the console got 79 spaces and a carriage return more than
\* the log file, which still ends with the new line.
C21_Witness ==
    /\ argv0 = <<T_log_ok, T_a>>
    /\ callbacks = <<CbText(<<"o", "k", "\n">>), CbCode(-79)>>
    /\ reporter.con_file # "NULL"
    /\ reporter.log_file # "NULL"
    /\ Len(reporter.con_out) = Len(reporter.log_out) + 80
    /\ reporter.con_out[Len(reporter.con_out)] = "\r"
    /\ reporter.con_out[Len(reporter.con_out) - 1] = " "
    /\ reporter.con_out[Len(reporter.con_out) - 79] = " "
    /\ reporter.con_out[Len(reporter.con_out) - 80] = "\n"
    /\ reporter.log_out[Len(reporter.log_out)] = "\n"
    /\ reporter.start_of_line

(***************************************************************************)
(* The key buffer.                                                         *)
(***************************************************************************)
\* C22: whatever the token, scan_option and the normalization of the
\* juxtaposed arguments write only to opt[0..15]; after them opt holds a
\* NUL within the array and, before it, at most 15 characters, which are
\* lowercased characters of the token in their order and are the key that
\* parse_args goes on with; opng_strpbrk_digit never returns a null
\* pointer to the normalization.
C22_KeyBufferSafe ==
    /\ opt_buf.oob = {}
    /\ ~opt_buf.null_digit
    /\ scan.idx # 0 =>
          /\ \E k \in 0..(OptBufSize - 1) : opt_buf.mem[k] = "NUL"
          /\ OptBufStrlen(opt_buf, 0) <= OptBufSize - 1
          /\ \A k \in 0..(OptBufSize - 1) :
                k < OptBufStrlen(opt_buf, 0) =>
                    /\ opt_buf.mem[k] # "indeterminate"
                    /\ opt_buf.mem[k] = tolower(opt_buf.mem[k])
          /\ OptBufStr(opt_buf) = scan.opt
          /\ \E t \in {From(argv0[scan.idx], j) :
                           j \in 2..Len(argv0[scan.idx])} :
                IsPrefix(OptBufStr(opt_buf), LowerStr(t))

\* -ZC1-2,3-4,5-6,7-8,9: the key has 19 characters; 15 were kept, with the
\* NUL in opt[15], and the normalization cut the key to zc.
C22_Witness ==
    /\ argv0 = <<T_zc_long>>
    /\ scan.idx = 1
    /\ opt_buf.mem[14] = "7"
    /\ opt_buf.mem[15] = "NUL"
    /\ opt_buf.mem[2] = "NUL"
    /\ OptBufStr(opt_buf) = <<"z", "c">>
    /\ scan.xopt = From(T_zc_long, 4)
    /\ options.compr_level_set = 1..9

(***************************************************************************)
(* The tests on the key do not overlap.                                    *)
(***************************************************************************)
\* C23: the key of a scanned option satisfies the tests of parse_args for
\* at most one option (two names of one option counting once), and that
\* option is the one the chain of tests selects; so the order of the tests
\* does not matter.
C23_TestsDoNotOverlap ==
    scan.idx # 0 =>
        /\ Cardinality(OptionTests(scan.opt, Len(scan.opt))) <= 1
        /\ OptionTests(scan.opt, Len(scan.opt)) =
              IF scan.tag = "" THEN {} ELSE {scan.tag}

\* -f 1: the key f begins fix, force and full, which are tested first, and
\* satisfies the test of the filter option only.
C23_Witness ==
    /\ argv0 = <<S_dash \o S_f, T_one>>
    /\ scan.idx = 1
    /\ IsPrefix(scan.opt, S_fix)
    /\ IsPrefix(scan.opt, S_force)
    /\ IsPrefix(scan.opt, S_full)
    /\ OptionTests(scan.opt, Len(scan.opt)) = {"f"}
    /\ scan.tag = "f"
    /\ options.filter_set = {1}

(***************************************************************************)
(* When the engine is called.                                              *)
(***************************************************************************)
\* The forms of the help option.
HelpForms == {S_dash \o SubSeq(S_help, 1, k) : k \in 1..Len(S_help)}
                 \cup {T_qmark, T_hh, T_H}

\* Tokens that are a file name or an option complete in itself, and not
\* the stop switch.
SelfContained ==
    {T_a, T_b, T_v, T_q, T_o2, T_o3, T_out_x, T_dir_y, T_log_ok}

\* The command line has a help option that no stop switch and no option
\* taking the next token precedes.
HelpGiven ==
    \E k \in 1..Len(argv0) :
        /\ argv0[k] \in HelpForms
        /\ \A j \in 1..(k - 1) : argv0[j] \in SelfContained

\* Every token is an option token and none is the stop switch.
NoFileNameGiven ==
    \A k \in 1..Len(argv0) :
        /\ Len(argv0[k]) >= 2
        /\ argv0[k][1] = "-"
        /\ \E j \in 2..Len(argv0[k]) : argv0[k][j] # "-"

\* C24: the engine is called only after parse_args ended without a usage
\* error, with the help flag not set, with at least one token counted as a
\* file name and with the operation OP_RUN.  A token resolved as the help
\* option sets the help flag for good; so on a command line with a help
\* option before any stop switch, or with no file name, no engine call is
\* ever made, whatever file names and version flags it has.
C24_EngineOnlyOnRun ==
    /\ [](calls # <<>> =>
            /\ err \notin UsageErrors
            /\ pc \notin {"parse_args", "app_init", "main"}
            /\ ~local_options.help
            /\ file_count >= 1
            /\ counted # <<>>
            /\ operation = "OP_RUN")
    /\ [][/\ (scan' # scan /\ scan'.tag = "help") => local_options'.help
          /\ local_options.help => local_options'.help]_vars
    /\ [](HelpGiven => calls = <<>>)
    /\ [](NoFileNameGiven => calls = <<>>)

\* -v -h a: help, a version flag and a file name; the process has ended
\* with status 0 after showing the help, without any engine call.
C24_Witness ==
    /\ argv0 = <<T_v, T_h, T_a>>
    /\ HelpGiven
    /\ local_options.help
    /\ local_options.version
    /\ file_count = 1
    /\ operation = "OP_SHOW_HELP"
    /\ pc = "exited"
    /\ exit_status = EXIT_SUCCESS
    /\ calls = <<>>

(***************************************************************************)
(* The order of the options.                                               *)
(***************************************************************************)
\* Tokens that are a file name, a flag, or an option that carries its
\* value, valid or not; none is the stop switch.
InlineTokens ==
    PermTokens \cup SlotTokens \cup
    {T_empty, T_s, T_dir_y, T_log_ok, T_o_eq2, T_i2, T_zw_bad, T_H, T_qmark}

\* str[0] != '-' || str[1] == '\0': the token is a file name when no stop
\* switch precedes it.
IsFileToken(t) == At(t, 1) # "-" \/ Len(t) = 1

FilesOf(line) == SelectSeq(line, IsFileToken)

\* The permutations of the command line that keep its file names in their
\* order.
Reorderings(line) ==
    {p \in {[k \in 1..Len(line) |-> line[f[k]]] :
               f \in {g \in [1..Len(line) -> 1..Len(line)] :
                        \A a, b \in 1..Len(line) : g[a] = g[b] => a = b}} :
        FilesOf(p) = FilesOf(line)}

\* parse_args has just ended, by its return or by a usage error.
ResolutionEnded ==
    \/ pc = "app_init"
    \/ pc = "exited" /\ err \in UsageErrors

\* C25: on a command line without a stop switch whose value options all
\* carry their value, the outcome of parse_args is the outcome on every
\* permutation of the tokens that keeps the file names in their order:
\* a fatal error on both, or the same options, the same operation and the
\* same list of file names.
C25_OptionOrder ==
    (ResolutionEnded /\ \A k \in 1..Len(argv0) : argv0[k] \in InlineTokens)
        => \A p \in Reorderings(argv0) : Resolve(p) = Outcome

\* -zc9 a -zc3-9: the levels 3 to 9 and the file a, as for -zc3-9 a -zc9
\* and for a -zc3-9 -zc9.
C25_Witness ==
    /\ argv0 = <<T_zc9, T_a, T_zc39>>
    /\ pc = "app_init"
    /\ options.compr_level_set = 3..9
    /\ Outcome.files = <<T_a>>
    /\ <<T_zc39, T_a, T_zc9>> \in Reorderings(argv0)
    /\ <<T_a, T_zc39, T_zc9>> \in Reorderings(argv0)
    /\ Resolve(<<T_zc39, T_a, T_zc9>>) = Outcome

====
